---- MODULE Spec2Model ----
(***************************************************************************)
(* LRU/TTL cache (cache.py) over two conforming stores: the in-process     *)
(* MemoryStore (memory_store.py) and a store with the key-space layout of  *)
(* RedisStore (redis_store.py).  Store methods are operators from a store  *)
(* record to a record [store, ret]; the Cache methods compose them exactly *)
(* in the order of the source.                                             *)
(***************************************************************************)
EXTENDS Integers, Sequences, FiniteSets, TLC

\* ---------------------------------------------------------------- bounds
MaxTime == 2
MaxCapacity == 2
MaxListLen == 3
MaxCounter == 3
MaxHist == 5
MaxQueue == 3
MaxArgs == 2

\* cache keys, in the order scripts first use them
KeyOrder == <<"A", "B", "C", "D">>
Keys == {"A", "B", "C"}
Values == {1, 2}
DefaultTtl == 1
LongTtl == 2
\* the ttl argument of Cache.set: None (use the default) or an explicit ttl
NoTtl == -1
TtlArgs == {NoTtl, LongTtl}

\* ------------------------------------------------------------ byte strings
\* bytes are modelled as tagged payloads: the ASCII decimal form of an
\* integer (b"0") and the pickle of a value are different encodings
None == [tag |-> "none", v |-> 0]
NoneStr == "None"

IntBytes(n) == [tag |-> "int", v |-> n]
pickle_dumps(value) == [tag |-> "pickle", v |-> value]
pickle_loads(bytes) == IF bytes.tag = "pickle" THEN bytes.v ELSE -1
\* int(size_bytes.decode('utf-8') if size_bytes else 0)
int_decode(bytes) == IF bytes = None THEN 0 ELSE bytes.v

\* ------------------------------------------------------------------- maps
EmptyMap == [x \in {} |-> 0]
Put(f, k, v) == [x \in (DOMAIN f) \cup {k} |-> IF x = k THEN v ELSE f[x]]
Del(f, k) == [x \in (DOMAIN f) \ {k} |-> f[x]]
Has(f, k) == k \in DOMAIN f
Lookup(f, k, default) == IF k \in DOMAIN f THEN f[k] ELSE default

\* ------------------------------------------------------------- sequences
RECURSIVE IndexOf(_, _, _)
\* first position >= i holding value, 0 when there is none (list.index)
IndexOf(seq, value, i) ==
  IF i > Len(seq) THEN 0
  ELSE IF seq[i] = value THEN i
  ELSE IndexOf(seq, value, i + 1)

RECURSIVE LastIndexOf(_, _, _)
\* last position <= i holding value, 0 when there is none
LastIndexOf(seq, value, i) ==
  IF i < 1 THEN 0
  ELSE IF seq[i] = value THEN i
  ELSE LastIndexOf(seq, value, i - 1)

RemoveAt(seq, i) == SubSeq(seq, 1, i - 1) \o SubSeq(seq, i + 1, Len(seq))

RECURSIVE Count(_, _)
Count(seq, value) ==
  IF seq = <<>> THEN 0
  ELSE (IF Head(seq) = value THEN 1 ELSE 0) + Count(Tail(seq), value)

Range(seq) == {seq[i] : i \in 1..Len(seq)}

\* -------------------------------------------------------------- MemoryStore
MemoryStore_init ==
  [data |-> EmptyMap, lists |-> EmptyMap, expiry |-> EmptyMap, counters |-> EmptyMap]

\* _check_expiry as it would be if a key expired the moment its expiry
\* time is reached
check_expiry_early(s, key, now) ==
  IF Has(s.expiry, key) /\ now >= s.expiry[key]
  THEN [store |-> [s EXCEPT !.data = Del(s.data, key), !.expiry = Del(s.expiry, key)],
        ret |-> TRUE]
  ELSE [store |-> s, ret |-> FALSE]

\* _check_expiry as it would be if it removed the payload of an expired key
\* and kept the expiry record
check_expiry_keep_record(s, key, now) ==
  IF Has(s.expiry, key) /\ now > s.expiry[key]
  THEN [store |-> [s EXCEPT !.data = Del(s.data, key)], ret |-> TRUE]
  ELSE [store |-> s, ret |-> FALSE]

check_expiry(s, key, now) ==
  IF Has(s.expiry, key) /\ now > s.expiry[key]
  THEN [store |-> [s EXCEPT !.data = Del(s.data, key), !.expiry = Del(s.expiry, key)],
        ret |-> TRUE]
  ELSE [store |-> s, ret |-> FALSE]

get(s, key, now) ==
  LET c == check_expiry(s, key, now)
  IN  IF c.ret THEN [store |-> c.store, ret |-> None]
      ELSE [store |-> c.store, ret |-> Lookup(c.store.data, key, None)]

\* set as it would be if a set without ttl left an earlier expiry in place
set_keep_expiry(s, key, value, ttl, now) ==
  [store |-> [s EXCEPT !.data = Put(s.data, key, value),
                       !.expiry = IF ttl # NoTtl THEN Put(s.expiry, key, now + ttl)
                                  ELSE s.expiry],
   ret |-> TRUE]

set(s, key, value, ttl, now) ==
  [store |-> [s EXCEPT !.data = Put(s.data, key, value),
                       !.expiry = IF ttl # NoTtl THEN Put(s.expiry, key, now + ttl)
                                  ELSE Del(s.expiry, key)],
   ret |-> TRUE]

\* delete as it would be if it left the expiry record behind
delete_keep_expiry(s, key) ==
  IF Has(s.data, key)
  THEN [store |-> [s EXCEPT !.data = Del(s.data, key)], ret |-> TRUE]
  ELSE [store |-> s, ret |-> FALSE]

delete(s, key) ==
  IF Has(s.data, key)
  THEN [store |-> [s EXCEPT !.data = Del(s.data, key), !.expiry = Del(s.expiry, key)],
        ret |-> TRUE]
  ELSE [store |-> s, ret |-> FALSE]

\* exists as it would be without the expiry check
exists_unchecked(s, key, now) == [store |-> s, ret |-> Has(s.data, key)]

exists(s, key, now) ==
  LET c == check_expiry(s, key, now)
  IN  IF c.ret THEN [store |-> c.store, ret |-> FALSE]
      ELSE [store |-> c.store, ret |-> Has(c.store.data, key)]

\* lrange as it would be if end were excluded from the slice
lrange_exclusive(s, key, start, end) ==
  IF ~Has(s.lists, key) THEN <<>>
  ELSE LET l == s.lists[key]
           e == IF end = -1 THEN Len(l) ELSE end
           hi == IF e > Len(l) THEN Len(l) ELSE e
       IN  SubSeq(l, start + 1, hi)

\* Python slice [start : end + 1] of a list, for start >= 0
lrange(s, key, start, end) ==
  IF ~Has(s.lists, key) THEN <<>>
  ELSE LET l == s.lists[key]
           e == IF end = -1 THEN Len(l) ELSE end
           hi == IF e + 1 > Len(l) THEN Len(l) ELSE e + 1
       IN  SubSeq(l, start + 1, hi)

lindex(s, key, index) ==
  IF ~Has(s.lists, key) THEN NoneStr
  ELSE LET l == s.lists[key]
           i == IF index < 0 THEN Len(l) + index + 1 ELSE index + 1
       IN  IF i >= 1 /\ i <= Len(l) THEN l[i] ELSE NoneStr

RECURSIVE RemoveFirstN(_, _, _)
\* list.remove(value) repeated up to n times: [remaining list, removed]
RemoveFirstN(l, value, n) ==
  LET i == IndexOf(l, value, 1)
  IN  IF n = 0 \/ i = 0 THEN [list |-> l, removed |-> 0]
      ELSE LET r == RemoveFirstN(RemoveAt(l, i), value, n - 1)
           IN  [list |-> r.list, removed |-> r.removed + 1]

RECURSIVE RemoveLastN(_, _, _)
RemoveLastN(l, value, n) ==
  LET i == LastIndexOf(l, value, Len(l))
  IN  IF n = 0 \/ i = 0 THEN [list |-> l, removed |-> 0]
      ELSE LET r == RemoveLastN(RemoveAt(l, i), value, n - 1)
           IN  [list |-> r.list, removed |-> r.removed + 1]

\* lrem as it would be if a negative count also removed from the front
lrem_from_front(s, key, count, value) ==
  IF ~Has(s.lists, key) THEN [store |-> s, ret |-> 0]
  ELSE LET l == s.lists[key]
           r == IF count > 0 THEN RemoveFirstN(l, value, count)
                ELSE IF count < 0 THEN RemoveFirstN(l, value, -count)
                ELSE [list |-> SelectSeq(l, LAMBDA x : x # value),
                      removed |-> Count(l, value)]
       IN  [store |-> [s EXCEPT !.lists = Put(s.lists, key, r.list)], ret |-> r.removed]

lrem(s, key, count, value) ==
  IF ~Has(s.lists, key) THEN [store |-> s, ret |-> 0]
  ELSE LET l == s.lists[key]
           r == IF count > 0 THEN RemoveFirstN(l, value, count)
                ELSE IF count < 0 THEN RemoveLastN(l, value, -count)
                ELSE [list |-> SelectSeq(l, LAMBDA x : x # value),
                      removed |-> Count(l, value)]
       IN  [store |-> [s EXCEPT !.lists = Put(s.lists, key, r.list)], ret |-> r.removed]

rpush(s, key, values) ==
  LET l == Lookup(s.lists, key, <<>>) \o values
  IN  [store |-> [s EXCEPT !.lists = Put(s.lists, key, l)], ret |-> Len(l)]

incr(s, key) ==
  LET n == Lookup(s.counters, key, 0) + 1
  IN  [store |-> [s EXCEPT !.counters = Put(s.counters, key, n)], ret |-> n]

\* decr as it would be if a counter could not go below zero
decr_to_zero(s, key) ==
  LET c == Lookup(s.counters, key, 0)
      n == IF c > 0 THEN c - 1 ELSE 0
  IN  [store |-> [s EXCEPT !.counters = Put(s.counters, key, n)], ret |-> n]

decr(s, key) ==
  LET n == Lookup(s.counters, key, 0) - 1
  IN  [store |-> [s EXCEPT !.counters = Put(s.counters, key, n)], ret |-> n]

\* --------------------------------------------------------------- RedisStore
\* RedisStore hands every call to one Redis database: strings, counters and
\* lists live in one key space (fields data and lists of the same record,
\* counters unused), a key is gone once its time to live has run out, DEL
\* removes a key of any type, INCR/DECR rewrite the decimal string stored
\* under the key, and a list that becomes empty is removed.
redis_expire(s, key, now) ==
  IF Has(s.expiry, key) /\ now >= s.expiry[key]
  THEN [s EXCEPT !.data = Del(s.data, key), !.expiry = Del(s.expiry, key)]
  ELSE s

redis_get(s, key, now) ==
  LET s1 == redis_expire(s, key, now)
  IN  [store |-> s1, ret |-> Lookup(s1.data, key, None)]

redis_set(s, key, value, ttl, now) ==
  [store |-> [s EXCEPT !.data = Put(s.data, key, value),
                       !.expiry = IF ttl # NoTtl THEN Put(s.expiry, key, now + ttl)
                                  ELSE Del(s.expiry, key)],
   ret |-> TRUE]

redis_delete(s, key, now) ==
  LET s1 == redis_expire(s, key, now)
  IN  [store |-> [s1 EXCEPT !.data = Del(s1.data, key),
                            !.expiry = Del(s1.expiry, key),
                            !.lists = Del(s1.lists, key)],
       ret |-> Has(s1.data, key) \/ Has(s1.lists, key)]

redis_exists(s, key, now) ==
  LET s1 == redis_expire(s, key, now)
  IN  [store |-> s1, ret |-> Has(s1.data, key) \/ Has(s1.lists, key)]

redis_lrange(s, key, start, end) == lrange(s, key, start, end)

redis_lindex(s, key, index) == lindex(s, key, index)

redis_lrem(s, key, count, value) ==
  LET r == lrem(s, key, count, value)
  IN  IF Has(r.store.lists, key) /\ r.store.lists[key] = <<>>
      THEN [store |-> [r.store EXCEPT !.lists = Del(r.store.lists, key)], ret |-> r.ret]
      ELSE r

redis_rpush(s, key, values) == rpush(s, key, values)

redis_incr(s, key, now) ==
  LET s1 == redis_expire(s, key, now)
      n == int_decode(Lookup(s1.data, key, None)) + 1
  IN  [store |-> [s1 EXCEPT !.data = Put(s1.data, key, IntBytes(n))], ret |-> n]

redis_decr(s, key, now) ==
  LET s1 == redis_expire(s, key, now)
      n == int_decode(Lookup(s1.data, key, None)) - 1
  IN  [store |-> [s1 EXCEPT !.data = Put(s1.data, key, IntBytes(n))], ret |-> n]

\* ------------------------------------------------- CacheStore (the interface)
Kinds == {"memory", "redis"}

store_get(kind, s, key, now) ==
  IF kind = "memory" THEN get(s, key, now) ELSE redis_get(s, key, now)
store_set(kind, s, key, value, ttl, now) ==
  IF kind = "memory" THEN set(s, key, value, ttl, now) ELSE redis_set(s, key, value, ttl, now)
store_delete(kind, s, key, now) ==
  IF kind = "memory" THEN delete(s, key) ELSE redis_delete(s, key, now)
store_exists(kind, s, key, now) ==
  IF kind = "memory" THEN exists(s, key, now) ELSE redis_exists(s, key, now)
store_lrange(kind, s, key, start, end) ==
  IF kind = "memory" THEN lrange(s, key, start, end) ELSE redis_lrange(s, key, start, end)
store_lindex(kind, s, key, index) ==
  IF kind = "memory" THEN lindex(s, key, index) ELSE redis_lindex(s, key, index)
store_lrem(kind, s, key, count, value) ==
  IF kind = "memory" THEN lrem(s, key, count, value) ELSE redis_lrem(s, key, count, value)
store_rpush(kind, s, key, values) ==
  IF kind = "memory" THEN rpush(s, key, values) ELSE redis_rpush(s, key, values)
store_incr(kind, s, key, now) ==
  IF kind = "memory" THEN incr(s, key) ELSE redis_incr(s, key, now)
store_decr(kind, s, key, now) ==
  IF kind = "memory" THEN decr(s, key) ELSE redis_decr(s, key, now)

\* ------------------------------------------------------------ CachePipeline
\* a queued operation; the fields an operation does not use hold fillers
Op(name, key, value, ttl, count, values) ==
  [name |-> name, key |-> key, value |-> value, ttl |-> ttl, count |-> count, values |-> values]

pipe_get(ops, key) == Append(ops, Op("get", key, None, NoTtl, 0, <<>>))
pipe_set(ops, key, value, ttl) == Append(ops, Op("set", key, value, ttl, 0, <<>>))
\* setex as it would be if it queued the value without its ttl
pipe_setex_no_ttl(ops, key, ttl, value) == Append(ops, Op("set", key, value, NoTtl, 0, <<>>))
pipe_setex(ops, key, ttl, value) == Append(ops, Op("set", key, value, ttl, 0, <<>>))
pipe_delete(ops, key) == Append(ops, Op("delete", key, None, NoTtl, 0, <<>>))
pipe_lrem(ops, key, count, value) == Append(ops, Op("lrem", key, value, NoTtl, count, <<>>))
pipe_rpush(ops, key, values) == Append(ops, Op("rpush", key, None, NoTtl, 0, values))
pipe_incr(ops, key) == Append(ops, Op("incr", key, None, NoTtl, 0, <<>>))
pipe_decr(ops, key) == Append(ops, Op("decr", key, None, NoTtl, 0, <<>>))

\* one branch of the dispatch in execute
apply_op(kind, s, op, now) ==
  IF op.name = "get" THEN store_get(kind, s, op.key, now)
  ELSE IF op.name = "set" THEN store_set(kind, s, op.key, op.value, op.ttl, now)
  ELSE IF op.name = "delete" THEN store_delete(kind, s, op.key, now)
  ELSE IF op.name = "lrem" THEN store_lrem(kind, s, op.key, op.count, op.value)
  ELSE IF op.name = "rpush" THEN store_rpush(kind, s, op.key, op.values)
  ELSE IF op.name = "incr" THEN store_incr(kind, s, op.key, now)
  ELSE store_decr(kind, s, op.key, now)

RECURSIVE execute(_, _, _, _)
\* applies the queued operations in order: [store, results]
execute(kind, s, ops, now) ==
  IF ops = <<>> THEN [store |-> s, results |-> <<>>]
  ELSE LET r == apply_op(kind, s, Head(ops), now)
           rest == execute(kind, r.store, Tail(ops), now)
       IN  [store |-> rest.store, results |-> <<r.ret>> \o rest.results]

\* -------------------------------------------------------------------- Cache
cache_data_prefix == "lru_cache:data:"
cache_list_key == "lru_cache:keys"
cache_size_key == "lru_cache:size"
data_key(key) == cache_data_prefix \o key

\* what one Cache call did: the store it leaves, its return value, the
\* operations it queued, the pipelines it created and executed, and the
\* key whose eviction it queued (NoneStr when it queued none)
Outcome(s, ret, ops, pipes, execs, evicted) ==
  [store |-> s, ret |-> ret, ops |-> ops, pipes |-> pipes, execs |-> execs,
   evicted |-> evicted]

\* Cache.__init__: writes the size key only when it does not exist
\* Cache.__init__ as it would be if it always wrote the size key
Cache_init_reset(kind, s, now) ==
  store_set(kind, store_exists(kind, s, cache_size_key, now).store,
            cache_size_key, IntBytes(0), NoTtl, now).store

Cache_init(kind, s, now) ==
  LET e == store_exists(kind, s, cache_size_key, now)
  IN  IF ~e.ret
      THEN store_set(kind, e.store, cache_size_key, IntBytes(0), NoTtl, now).store
      ELSE e.store

\* Cache.get as it would be without the move to the tail of the recency list
Cache_get_no_refresh(kind, s, key, now) ==
  LET e == store_exists(kind, s, data_key(key), now)
      g == store_get(kind, e.store, data_key(key), now)
  IN  IF ~e.ret THEN Outcome(e.store, 0, <<>>, 0, 0, NoneStr)
      ELSE Outcome(g.store, IF g.ret # None THEN pickle_loads(g.ret) ELSE 0,
                   <<>>, 0, 0, NoneStr)

\* Cache.get as it would be if a hit wrote the payload back with the default ttl
Cache_get_touch(kind, s, key, now) ==
  LET e == store_exists(kind, s, data_key(key), now)
  IN  IF ~e.ret THEN Outcome(e.store, 0, <<>>, 0, 0, NoneStr)
      ELSE LET ops == pipe_rpush(pipe_lrem(<<>>, cache_list_key, 1, key),
                                 cache_list_key, <<key>>)
               x == execute(kind, e.store, ops, now)
               g == store_get(kind, x.store, data_key(key), now)
               w == store_set(kind, g.store, data_key(key), g.ret, DefaultTtl, now)
           IN  Outcome(w.store, IF g.ret # None THEN pickle_loads(g.ret) ELSE 0,
                       ops, 1, 1, NoneStr)

\* Cache.get as it would be without the check that the payload exists
Cache_get_unchecked(kind, s, key, now) ==
  LET ops == pipe_rpush(pipe_lrem(<<>>, cache_list_key, 1, key), cache_list_key, <<key>>)
      x == execute(kind, s, ops, now)
      g == store_get(kind, x.store, data_key(key), now)
  IN  Outcome(g.store, IF g.ret # None THEN pickle_loads(g.ret) ELSE 0, ops, 1, 1, NoneStr)

\* Cache.get as it would be if a hit took the key off the recency list
\* without appending it again
Cache_get_drop(kind, s, key, now) ==
  LET e == store_exists(kind, s, data_key(key), now)
  IN  IF ~e.ret THEN Outcome(e.store, 0, <<>>, 0, 0, NoneStr)
      ELSE LET ops == pipe_lrem(<<>>, cache_list_key, 1, key)
               x == execute(kind, e.store, ops, now)
               g == store_get(kind, x.store, data_key(key), now)
           IN  Outcome(g.store, IF g.ret # None THEN pickle_loads(g.ret) ELSE 0,
                       ops, 1, 1, NoneStr)

\* Cache.get: the value, or 0 for Python's None
Cache_get(kind, s, key, now) ==
  LET e == store_exists(kind, s, data_key(key), now)
  IN  IF ~e.ret THEN Outcome(e.store, 0, <<>>, 0, 0, NoneStr)
      ELSE LET ops == pipe_rpush(pipe_lrem(<<>>, cache_list_key, 1, key),
                                 cache_list_key, <<key>>)
               x == execute(kind, e.store, ops, now)
               g == store_get(kind, x.store, data_key(key), now)
           IN  Outcome(g.store, IF g.ret # None THEN pickle_loads(g.ret) ELSE 0,
                       ops, 1, 1, NoneStr)

\* set_new_ops as it would be if eviction started one entry too late
set_new_ops_late(oldest_key, current_size, max_size) ==
  LET evict == IF current_size > max_size
               THEN IF oldest_key # NoneStr
                    THEN pipe_delete(pipe_lrem(<<>>, cache_list_key, 1, oldest_key),
                                     data_key(oldest_key))
                    ELSE pipe_set(<<>>, cache_size_key, IntBytes(0), NoTtl)
               ELSE <<>>
  IN  pipe_incr(evict, cache_size_key)

\* set_new_ops as it would be without the reset of the size for an empty list
set_new_ops_no_reset(oldest_key, current_size, max_size) ==
  LET evict == IF current_size >= max_size /\ oldest_key # NoneStr
               THEN pipe_delete(pipe_lrem(<<>>, cache_list_key, 1, oldest_key),
                                data_key(oldest_key))
               ELSE <<>>
  IN  pipe_incr(evict, cache_size_key)

\* the operations Cache.set queues for a key that does not exist yet
set_new_ops(oldest_key, current_size, max_size) ==
  LET evict == IF current_size >= max_size
               THEN IF oldest_key # NoneStr
                    THEN pipe_delete(pipe_lrem(<<>>, cache_list_key, 1, oldest_key),
                                     data_key(oldest_key))
                    ELSE pipe_set(<<>>, cache_size_key, IntBytes(0), NoTtl)
               ELSE <<>>
  IN  pipe_incr(evict, cache_size_key)

\* Cache.set as it would be if it took every key for a new one
Cache_set_always_new(kind, s, key, value, ttl, now, max_size) ==
  LET value_bytes == pickle_dumps(value)
      e == store_exists(kind, s, data_key(key), now)
      g == store_get(kind, e.store, cache_size_key, now)
      current_size == int_decode(g.ret)
      oldest_key == store_lindex(kind, g.store, cache_list_key, 0)
      first == pipe_incr(IF current_size >= max_size /\ oldest_key # NoneStr
                         THEN pipe_delete(pipe_lrem(<<>>, cache_list_key, 1, oldest_key),
                                          data_key(oldest_key))
                         ELSE <<>>, cache_size_key)
      ops == pipe_setex(pipe_rpush(first, cache_list_key, <<key>>), data_key(key),
                        IF ttl = NoTtl THEN DefaultTtl ELSE ttl, value_bytes)
      x == execute(kind, g.store, ops, now)
  IN  Outcome(x.store, 0, ops, 1, 1,
              IF current_size >= max_size THEN oldest_key ELSE NoneStr)

\* Cache.set as it would be if the payload were written before the eviction
\* of the oldest key is queued
Cache_set_write_first(kind, s, key, value, ttl, now, max_size) ==
  LET value_bytes == pickle_dumps(value)
      e == store_exists(kind, s, data_key(key), now)
      g == store_get(kind, e.store, cache_size_key, now)
      current_size == int_decode(g.ret)
      oldest_key == store_lindex(kind, g.store, cache_list_key, 0)
      s1 == IF ~e.ret THEN g.store ELSE e.store
      first == IF ~e.ret THEN set_new_ops(oldest_key, current_size, max_size)
               ELSE pipe_lrem(<<>>, cache_list_key, 1, key)
      write == pipe_setex(<<>>, data_key(key),
                          IF ttl = NoTtl THEN DefaultTtl ELSE ttl, value_bytes)
      ops == pipe_rpush(write \o first, cache_list_key, <<key>>)
      x == execute(kind, s1, ops, now)
  IN  Outcome(x.store, 0, ops, 1, 1,
              IF ~e.ret /\ current_size >= max_size THEN oldest_key ELSE NoneStr)

\* Cache.set as it would be if it evicted the tail of the recency list
Cache_set_evict_newest(kind, s, key, value, ttl, now, max_size) ==
  LET value_bytes == pickle_dumps(value)
      e == store_exists(kind, s, data_key(key), now)
      g == store_get(kind, e.store, cache_size_key, now)
      current_size == int_decode(g.ret)
      oldest_key == store_lindex(kind, g.store, cache_list_key, -1)
      s1 == IF ~e.ret THEN g.store ELSE e.store
      first == IF ~e.ret THEN set_new_ops(oldest_key, current_size, max_size)
               ELSE pipe_lrem(<<>>, cache_list_key, 1, key)
      ops == pipe_setex(pipe_rpush(first, cache_list_key, <<key>>), data_key(key),
                        IF ttl = NoTtl THEN DefaultTtl ELSE ttl, value_bytes)
      x == execute(kind, s1, ops, now)
  IN  Outcome(x.store, 0, ops, 1, 1,
              IF ~e.ret /\ current_size >= max_size THEN oldest_key ELSE NoneStr)

\* Cache.set as it would be if it always used the default ttl
Cache_set_default_ttl(kind, s, key, value, ttl, now, max_size) ==
  LET value_bytes == pickle_dumps(value)
      e == store_exists(kind, s, data_key(key), now)
      g == store_get(kind, e.store, cache_size_key, now)
      current_size == int_decode(g.ret)
      oldest_key == store_lindex(kind, g.store, cache_list_key, 0)
      s1 == IF ~e.ret THEN g.store ELSE e.store
      first == IF ~e.ret THEN set_new_ops(oldest_key, current_size, max_size)
               ELSE pipe_lrem(<<>>, cache_list_key, 1, key)
      ops == pipe_setex(pipe_rpush(first, cache_list_key, <<key>>), data_key(key),
                        DefaultTtl, value_bytes)
      x == execute(kind, s1, ops, now)
  IN  Outcome(x.store, 0, ops, 1, 1,
              IF ~e.ret /\ current_size >= max_size THEN oldest_key ELSE NoneStr)

Cache_set(kind, s, key, value, ttl, now, max_size) ==
  LET value_bytes == pickle_dumps(value)
      e == store_exists(kind, s, data_key(key), now)
      g == store_get(kind, e.store, cache_size_key, now)
      current_size == int_decode(g.ret)
      oldest_key == store_lindex(kind, g.store, cache_list_key, 0)
      s1 == IF ~e.ret THEN g.store ELSE e.store
      first == IF ~e.ret THEN set_new_ops(oldest_key, current_size, max_size)
               ELSE pipe_lrem(<<>>, cache_list_key, 1, key)
      ops == pipe_setex(pipe_rpush(first, cache_list_key, <<key>>), data_key(key),
                        IF ttl = NoTtl THEN DefaultTtl ELSE ttl, value_bytes)
      x == execute(kind, s1, ops, now)
  IN  Outcome(x.store, 0, ops, 1, 1,
              IF ~e.ret /\ current_size >= max_size THEN oldest_key ELSE NoneStr)

\* Cache.delete as it would be without the check that the key exists
Cache_delete_unchecked(kind, s, key, now) ==
  LET ops == pipe_decr(pipe_lrem(pipe_delete(<<>>, data_key(key)),
                                 cache_list_key, 1, key), cache_size_key)
      x == execute(kind, s, ops, now)
  IN  Outcome(x.store, TRUE, ops, 1, 1, NoneStr)

\* Cache.delete as it would be without the decrement of the size
Cache_delete_no_decr(kind, s, key, now) ==
  LET e == store_exists(kind, s, data_key(key), now)
  IN  IF ~e.ret THEN Outcome(e.store, FALSE, <<>>, 0, 0, NoneStr)
      ELSE LET ops == pipe_lrem(pipe_delete(<<>>, data_key(key)), cache_list_key, 1, key)
               x == execute(kind, e.store, ops, now)
           IN  Outcome(x.store, TRUE, ops, 1, 1, NoneStr)

Cache_delete(kind, s, key, now) ==
  LET e == store_exists(kind, s, data_key(key), now)
  IN  IF ~e.ret THEN Outcome(e.store, FALSE, <<>>, 0, 0, NoneStr)
      ELSE LET ops == pipe_decr(pipe_lrem(pipe_delete(<<>>, data_key(key)),
                                          cache_list_key, 1, key), cache_size_key)
               x == execute(kind, e.store, ops, now)
           IN  Outcome(x.store, TRUE, ops, 1, 1, NoneStr)

RECURSIVE delete_all(_, _)
\* for key in keys: pipe.delete(prefix + key)
delete_all(ops, keys) ==
  IF keys = <<>> THEN ops
  ELSE delete_all(pipe_delete(ops, data_key(Head(keys))), Tail(keys))

Cache_clear(kind, s, now) ==
  LET keys == store_lrange(kind, s, cache_list_key, 0, -1)
      ops == pipe_set(pipe_delete(delete_all(<<>>, keys), cache_list_key),
                      cache_size_key, IntBytes(0), NoTtl)
      x == execute(kind, s, ops, now)
  IN  Outcome(x.store, 0, ops, 1, 1, NoneStr)

Cache_get_stats(kind, s, now, max_size) ==
  LET g == store_get(kind, s, cache_size_key, now)
      keys == store_lrange(kind, g.store, cache_list_key, 0, -1)
  IN  Outcome(g.store, [size |-> int_decode(g.ret), max_size |-> max_size, keys |-> keys],
              <<>>, 0, 0, NoneStr)

\* ------------------------------------------------------------ state machine
\* One client makes Cache calls one after the other.  kind says which store
\* the Cache is built on: a MemoryStore (mem), a Redis-style store (red), or
\* "both": two caches of the same capacity, one per store, given the same
\* calls and reading the same clock.
\* threads and queue are used by the concurrent specifications only: the
\* position and local variables of each thread, and the operation lists of
\* the MemoryPipeline the threads share
VARIABLES now, max_size, kind, mem, red, last, hist, threads, queue
vars == <<now, max_size, kind, mem, red, last, hist, threads, queue>>

Active(k) == kind \in {k, "both"}

Result(o) ==
  [ret |-> o.ret, ops |-> o.ops, pipes |-> o.pipes, execs |-> o.execs, evicted |-> o.evicted]

Call(op, key, value, ttl, m, r) ==
  [op |-> op, key |-> key, value |-> value, ttl |-> ttl, mem |-> Result(m), red |-> Result(r)]

\* the outcome recorded for the store the Cache is not built on
Idle(s) == Outcome(s, 0, <<>>, 0, 0, NoneStr)

\* observations of a store, without side effects
RecencyList(s) == Lookup(s.lists, cache_list_key, <<>>)
MemSize(s) == Lookup(s.counters, cache_size_key, 0)
SizeBytes(s) == int_decode(Lookup(s.data, cache_size_key, None))
MemLive(s, key, t) ==
  Has(s.data, data_key(key)) /\ ~(Has(s.expiry, data_key(key)) /\ t > s.expiry[data_key(key)])
RedLive(s, key, t) ==
  Has(s.data, data_key(key)) /\ ~(Has(s.expiry, data_key(key)) /\ t >= s.expiry[data_key(key)])

\* keeps the model finite: the lists and counters of the next state
Bounded(m, r) ==
  /\ Len(RecencyList(m)) <= MaxListLen
  /\ Len(RecencyList(r)) <= MaxListLen
  /\ MemSize(m) <= MaxCounter
  /\ SizeBytes(r) <= MaxCounter

InitOn(kinds, capacities) ==
  /\ now = 0
  /\ max_size \in capacities
  /\ kind \in kinds
  /\ mem = IF Active("memory") THEN Cache_init("memory", MemoryStore_init, 0)
           ELSE MemoryStore_init
  /\ red = IF Active("redis") THEN Cache_init("redis", MemoryStore_init, 0)
           ELSE MemoryStore_init
  /\ last = Call("init", NoneStr, 0, NoTtl, Idle(mem), Idle(red))
  /\ hist = <<>>
  /\ threads = <<>>
  /\ queue = <<>>

Step(op, key, value, ttl, m, r) ==
  /\ mem' = m.store
  /\ red' = r.store
  /\ last' = Call(op, key, value, ttl, m, r)
  /\ UNCHANGED <<now, max_size, kind, threads, queue>>

Set(key, value, ttl) ==
  Step("set", key, value, ttl,
       IF Active("memory") THEN Cache_set("memory", mem, key, value, ttl, now, max_size)
       ELSE Idle(mem),
       IF Active("redis") THEN Cache_set("redis", red, key, value, ttl, now, max_size)
       ELSE Idle(red))

Get(key) ==
  Step("get", key, 0, NoTtl,
       IF Active("memory") THEN Cache_get("memory", mem, key, now) ELSE Idle(mem),
       IF Active("redis") THEN Cache_get("redis", red, key, now) ELSE Idle(red))

Delete(key) ==
  Step("delete", key, 0, NoTtl,
       IF Active("memory") THEN Cache_delete("memory", mem, key, now) ELSE Idle(mem),
       IF Active("redis") THEN Cache_delete("redis", red, key, now) ELSE Idle(red))

Clear ==
  Step("clear", NoneStr, 0, NoTtl,
       IF Active("memory") THEN Cache_clear("memory", mem, now) ELSE Idle(mem),
       IF Active("redis") THEN Cache_clear("redis", red, now) ELSE Idle(red))

GetStats ==
  Step("get_stats", NoneStr, 0, NoTtl,
       IF Active("memory") THEN Cache_get_stats("memory", mem, now, max_size) ELSE Idle(mem),
       IF Active("redis") THEN Cache_get_stats("redis", red, now, max_size) ELSE Idle(red))

\* time.time() moves on between two calls
Tick ==
  /\ now < MaxTime
  /\ now' = now + 1
  /\ UNCHANGED <<max_size, kind, mem, red, last, threads, queue>>

\* Spec: a Cache on one store, any calls, the clock free to advance
Init == InitOn({"memory", "redis"}, 1..MaxCapacity)

DoSet ==
  \E key \in Keys, value \in Values, ttl \in TtlArgs :
    Set(key, value, ttl) /\ Bounded(mem', red') /\ UNCHANGED hist
DoGet == \E key \in Keys : Get(key) /\ Bounded(mem', red') /\ UNCHANGED hist
DoDelete == \E key \in Keys : Delete(key) /\ UNCHANGED hist
DoClear == Clear /\ UNCHANGED hist
DoGetStats == GetStats /\ UNCHANGED hist
DoTick == Tick /\ UNCHANGED hist

Next == DoSet \/ DoGet \/ DoDelete \/ DoClear \/ DoGetStats \/ DoTick

Spec == Init /\ [][Next]_vars

\* SpecBoth: the same calls on a Cache over each store, the clock standing still
InitBoth == InitOn({"both"}, 1..MaxCapacity)

NextBoth == DoSet \/ DoGet \/ DoDelete \/ DoClear \/ DoGetStats

SpecBoth == InitBoth /\ [][NextBoth]_vars

\* SpecScript: every run is a script of at most MaxHist set, get and delete
\* calls on a fresh Cache, recorded call by call in hist; the clock stands
\* still and every set stores ScriptValue with the default ttl.  The code
\* treats keys as opaque strings, so a script names its keys in the order
\* of KeyOrder: a call uses a key used before or the first unused one.
ScriptValue == CHOOSE value \in Values : TRUE
UsedKeys == {hist[i][2] : i \in 1..Len(hist)}
ScriptKeys ==
  {KeyOrder[i] : i \in 1..(IF Cardinality(UsedKeys) < Len(KeyOrder)
                           THEN Cardinality(UsedKeys) + 1 ELSE Len(KeyOrder))}

InitScript == InitOn({"memory", "redis"}, 1..(MaxCapacity + 1))

ScriptSet ==
  \E key \in ScriptKeys :
    /\ Len(hist) < MaxHist
    /\ Set(key, ScriptValue, NoTtl)
    /\ hist' = Append(hist, <<"set", key>>)

ScriptGet ==
  \E key \in ScriptKeys :
    /\ Len(hist) < MaxHist
    /\ Get(key)
    /\ hist' = Append(hist, <<"get", key>>)

ScriptDelete ==
  \E key \in ScriptKeys :
    /\ Len(hist) < MaxHist
    /\ Delete(key)
    /\ hist' = Append(hist, <<"delete", key>>)

NextScript == ScriptSet \/ ScriptGet \/ ScriptDelete

SpecScript == InitScript /\ [][NextScript]_vars

\* SpecStore: one client calls a MemoryStore directly (mem), the clock free
\* to advance; last records the call, what it returned, whether its
\* expiry check removed the key, and the expiry time the key had before
\* the call (NoTtl for none)
StoreKeys == {"a", "b"}
CounterKeys == {"n"}
Bytes == {pickle_dumps(value) : value \in Values}
StoreTtls == {NoTtl, 0, DefaultTtl}

StoreCall(op, key, value, ttl, ret, expired) ==
  [op |-> op, key |-> key, value |-> value, ttl |-> ttl, ret |-> ret, expired |-> expired,
   before |-> NoTtl]

InitStore ==
  /\ now = 0
  /\ max_size = 1
  /\ kind = "store"
  /\ mem = MemoryStore_init
  /\ red = MemoryStore_init
  /\ last = StoreCall("init", NoneStr, None, NoTtl, None, FALSE)
  /\ hist = <<>>
  /\ threads = <<>>
  /\ queue = <<>>

StoreStep(op, key, value, ttl, r, expired) ==
  /\ mem' = r.store
  /\ last' = [StoreCall(op, key, value, ttl, r.ret, expired)
                EXCEPT !.before = Lookup(mem.expiry, key, NoTtl)]
  /\ UNCHANGED <<now, max_size, kind, red, hist, threads, queue>>

StoreSet ==
  \E key \in StoreKeys, value \in Bytes, ttl \in StoreTtls :
    StoreStep("set", key, value, ttl, set(mem, key, value, ttl, now), FALSE)
StoreGet ==
  \E key \in StoreKeys :
    StoreStep("get", key, None, NoTtl, get(mem, key, now), check_expiry(mem, key, now).ret)
StoreExists ==
  \E key \in StoreKeys :
    StoreStep("exists", key, None, NoTtl, exists(mem, key, now),
              check_expiry(mem, key, now).ret)
StoreDelete ==
  \E key \in StoreKeys : StoreStep("delete", key, None, NoTtl, delete(mem, key), FALSE)
StoreIncr ==
  \E key \in CounterKeys :
    /\ Lookup(mem.counters, key, 0) < MaxCounter
    /\ StoreStep("incr", key, None, NoTtl, incr(mem, key), FALSE)
StoreDecr ==
  \E key \in CounterKeys :
    /\ Lookup(mem.counters, key, 0) > -MaxCounter
    /\ StoreStep("decr", key, None, NoTtl, decr(mem, key), FALSE)

\* a list under a name that payloads use too
StoreRpush ==
  \E key \in {"a"} :
    /\ ~Has(mem.lists, key)
    /\ StoreStep("rpush", key, None, NoTtl, rpush(mem, key, <<"x">>), FALSE)

NextStore ==
  \/ StoreSet \/ StoreGet \/ StoreExists \/ StoreDelete \/ StoreIncr \/ StoreDecr
  \/ StoreRpush \/ DoTick

SpecStore == InitStore /\ [][NextStore]_vars

\* SpecRace: two threads, each making one Cache call on the same store and
\* the same clock value.  A thread takes one step per store call or pipeline
\* execute of the call's code; pc names the call it makes next, and found,
\* size, oldest and keys are the locals exists, current_size, oldest_key
\* and keys; calls counts the store calls and executes the thread has
\* made, faults those of them that raised, and error is the exception the
\* Cache call ended with.
Threads == {1, 2}
RaceKeys == {"A", "B"}
RaceOps == {"set", "get", "delete"}

Thread(op, key, pc, found, size, oldest, ret) ==
  [op |-> op, key |-> key, pc |-> pc, found |-> found, size |-> size,
   oldest |-> oldest, ret |-> ret, keys |-> <<>>, calls |-> 0, faults |-> 0,
   error |-> NoneStr]

\* the store the Cache is built on
TheStore == IF kind = "memory" THEN mem ELSE red
StoreBecomes(s) ==
  /\ mem' = IF kind = "memory" THEN s ELSE mem
  /\ red' = IF kind = "memory" THEN red ELSE s

\* the caches the threads start on: a fresh one, or one with a key set
RaceStart(k, capacity) ==
  {Cache_init(k, MemoryStore_init, 0),
   Cache_set(k, Cache_init(k, MemoryStore_init, 0), "A", ScriptValue, NoTtl, 0, capacity).store}

InitThreads(ops) ==
  /\ now = 0
  /\ max_size \in 1..MaxCapacity
  /\ kind \in Kinds
  /\ mem \in IF kind = "memory" THEN RaceStart(kind, max_size) ELSE {MemoryStore_init}
  /\ red \in IF kind = "redis" THEN RaceStart(kind, max_size) ELSE {MemoryStore_init}
  /\ last = Call("init", NoneStr, 0, NoTtl, Idle(mem), Idle(red))
  /\ hist = <<>>
  /\ threads \in [Threads -> {Thread(op, key, IF op = "clear" THEN "lrange" ELSE "exists",
                                       FALSE, 0, NoneStr, 0) :
                                op \in ops, key \in RaceKeys}]
  /\ queue = <<>>

InitRace == InitThreads(RaceOps)

ThreadBecomes(t, th) ==
  /\ threads' = [threads EXCEPT ![t] = [th EXCEPT !.calls = th.calls + 1]]
  /\ UNCHANGED <<now, max_size, kind, last, hist, queue>>

\* if not self.store.exists(data_key)
ThreadExists(t) ==
  LET th == threads[t]
      e == store_exists(kind, TheStore, data_key(th.key), now)
  IN  /\ th.pc = "exists"
      /\ StoreBecomes(e.store)
      /\ ThreadBecomes(t,
            IF e.ret THEN [th EXCEPT !.found = TRUE, !.pc = "execute"]
            ELSE IF th.op = "set" THEN [th EXCEPT !.pc = "size"]
            ELSE [th EXCEPT !.pc = "done", !.ret = IF th.op = "get" THEN 0 ELSE FALSE])

\* Cache.set: size_bytes = self.store.get(self.cache_size_key)
ThreadSize(t) ==
  LET th == threads[t]
      g == store_get(kind, TheStore, cache_size_key, now)
  IN  /\ th.pc = "size"
      /\ StoreBecomes(g.store)
      /\ ThreadBecomes(t, [th EXCEPT !.size = int_decode(g.ret),
                                      !.pc = IF int_decode(g.ret) >= max_size
                                             THEN "lindex" ELSE "execute"])

\* Cache.set: oldest_key = self.store.lindex(self.cache_list_key, 0)
ThreadLindex(t) ==
  LET th == threads[t]
  IN  /\ th.pc = "lindex"
      /\ UNCHANGED <<mem, red>>
      /\ ThreadBecomes(t, [th EXCEPT !.oldest = store_lindex(kind, TheStore, cache_list_key, 0),
                                      !.pc = "execute"])

\* the operations the call has queued when it reaches pipe.execute()
ThreadOps(th) ==
  IF th.op = "get"
  THEN pipe_rpush(pipe_lrem(<<>>, cache_list_key, 1, th.key), cache_list_key, <<th.key>>)
  ELSE IF th.op = "delete"
  THEN pipe_decr(pipe_lrem(pipe_delete(<<>>, data_key(th.key)), cache_list_key, 1, th.key),
                 cache_size_key)
  ELSE IF th.op = "clear"
  THEN pipe_set(pipe_delete(delete_all(<<>>, th.keys), cache_list_key),
                cache_size_key, IntBytes(0), NoTtl)
  ELSE pipe_setex(pipe_rpush(IF ~th.found THEN set_new_ops(th.oldest, th.size, max_size)
                             ELSE pipe_lrem(<<>>, cache_list_key, 1, th.key),
                             cache_list_key, <<th.key>>),
                  data_key(th.key), DefaultTtl, pickle_dumps(ScriptValue))

\* pipe.execute()
ThreadExecute(t) ==
  LET th == threads[t]
      x == execute(kind, TheStore, ThreadOps(th), now)
  IN  /\ th.pc = "execute"
      /\ StoreBecomes(x.store)
      /\ ThreadBecomes(t,
            IF th.op = "get" THEN [th EXCEPT !.pc = "read"]
            ELSE [th EXCEPT !.pc = "done", !.ret = IF th.op = "delete" THEN TRUE ELSE 0])

\* Cache.get: data_bytes = self.store.get(data_key)
ThreadRead(t) ==
  LET th == threads[t]
      g == store_get(kind, TheStore, data_key(th.key), now)
  IN  /\ th.pc = "read"
      /\ StoreBecomes(g.store)
      /\ ThreadBecomes(t, [th EXCEPT !.pc = "done",
                                      !.ret = IF g.ret # None THEN pickle_loads(g.ret) ELSE 0])

DoThreadExists == \E t \in Threads : ThreadExists(t)
DoThreadSize == \E t \in Threads : ThreadSize(t)
DoThreadLindex == \E t \in Threads : ThreadLindex(t)
DoThreadExecute == \E t \in Threads : ThreadExecute(t)
DoThreadRead == \E t \in Threads : ThreadRead(t)

NextRace ==
  DoThreadExists \/ DoThreadSize \/ DoThreadLindex \/ DoThreadExecute \/ DoThreadRead

SpecRace == InitRace /\ [][NextRace]_vars

\* SpecFault: the same threads, Cache.clear among their calls, on a store
\* whose calls may raise.  No Cache method catches an exception, so a
\* store call or execute that raises ends the Cache call with that
\* exception; an execute that raises has applied the operations queued
\* before the one that failed.
Failure == "BackendFailure"
FaultOps == RaceOps \cup {"clear"}

\* Cache.clear: keys = self.store.lrange(self.cache_list_key, 0, -1)
ThreadLrange(t) ==
  LET th == threads[t]
  IN  /\ th.pc = "lrange"
      /\ UNCHANGED <<mem, red>>
      /\ ThreadBecomes(t, [th EXCEPT !.keys = store_lrange(kind, TheStore, cache_list_key, 0, -1),
                                      !.pc = "execute"])

\* what the call at pc has done to the store when it raises
Raised(th) ==
  IF th.pc = "execute"
  THEN {execute(kind, TheStore, SubSeq(ThreadOps(th), 1, n), now).store :
          n \in 0..(Len(ThreadOps(th)) - 1)}
  ELSE {TheStore}

\* a store call that raises, as it would be if the Cache turned the
\* exception into a miss
ThreadRaise_as_miss(t) ==
  LET th == threads[t]
  IN  /\ th.pc \notin {"done", "raised"}
      /\ \E s \in Raised(th) : StoreBecomes(s)
      /\ ThreadBecomes(t, [th EXCEPT !.pc = "done", !.faults = th.faults + 1,
                                      !.ret = IF th.op = "delete" THEN FALSE ELSE 0])

ThreadRaise(t) ==
  LET th == threads[t]
  IN  /\ th.pc \notin {"done", "raised"}
      /\ \E s \in Raised(th) : StoreBecomes(s)
      /\ ThreadBecomes(t, [th EXCEPT !.pc = "raised", !.error = Failure,
                                      !.faults = th.faults + 1])

DoThreadLrange == \E t \in Threads : ThreadLrange(t)
DoThreadRaise == \E t \in Threads : ThreadRaise(t)

InitFault == InitThreads(FaultOps)

NextFault == NextRace \/ DoThreadLrange \/ DoThreadRaise

SpecFault == InitFault /\ [][NextFault]_vars

\* SpecPipe: threads sharing one MemoryPipeline.  queue.objs are the list
\* objects self.operations has been bound to and queue.cur is the one it is
\* bound to now.  A thread runs its program, a sequence of "enq" (one
\* builder call) and "exec" (one execute()) instructions; ip is the
\* instruction it is in and pc its position inside it: an append first
\* loads self.operations (ref) and then appends to that list, and execute
\* iterates over the list it loaded (ref, position i), applying one
\* operation per step, before it binds self.operations to a new list.
\* alone records that no other thread has taken a step since the thread's
\* execute() began, err that its last execute() raised, and out the result
\* lists its execute() calls returned.
PipeLogKey == "log"
\* the values a thread enqueues, in the order it enqueues them
OpIds == << <<"A", "B">>, <<"C", "D">> >>
OpId(t, n) == OpIds[t][n + 1]
PipePrograms == {<<"enq", "exec">>, <<"enq", "enq", "exec">>, <<"exec", "enq", "exec">>}

MemoryPipeline_init == [objs |-> << <<>> >>, cur |-> 1]
operations == queue.objs[queue.cur]

PipeThread(prog) ==
  [prog |-> prog, ip |-> 1, pc |-> "start", n |-> 0, ref |-> 0, i |-> 0,
   results |-> <<>>, out |-> <<>>, alone |-> FALSE, err |-> FALSE]

InitPipeOn(k, ts, programs) ==
  /\ now = 0
  /\ max_size = 1
  /\ kind = k
  /\ mem = MemoryStore_init
  /\ red = MemoryStore_init
  /\ last = Call("init", NoneStr, 0, NoTtl, Idle(mem), Idle(red))
  /\ hist = <<>>
  /\ threads \in [ts -> {PipeThread(prog) : prog \in programs}]
  /\ queue = MemoryPipeline_init

Instr(th) == IF th.ip <= Len(th.prog) THEN th.prog[th.ip] ELSE "end"

PipeBecomes(t, th) ==
  /\ threads' = [u \in DOMAIN threads |->
                   IF u = t THEN th ELSE [threads[u] EXCEPT !.alone = FALSE]]
  /\ UNCHANGED <<now, max_size, kind, red, last, hist>>

\* self.operations.append(...): the attribute is read first
PipeLoad(t) ==
  LET th == threads[t]
  IN  /\ Instr(th) = "enq" /\ th.pc = "start"
      /\ PipeBecomes(t, [th EXCEPT !.ref = queue.cur, !.pc = "append"])
      /\ UNCHANGED <<mem, queue>>

\* ... and the operation is then appended to the list that was read
PipeAppend(t) ==
  LET th == threads[t]
      ops == pipe_rpush(queue.objs[th.ref], PipeLogKey, <<OpId(t, th.n)>>)
  IN  /\ Instr(th) = "enq" /\ th.pc = "append"
      /\ queue' = [queue EXCEPT !.objs[th.ref] = ops]
      /\ PipeBecomes(t, [th EXCEPT !.n = th.n + 1, !.ip = th.ip + 1, !.pc = "start"])
      /\ UNCHANGED mem

\* execute: results = []; for op in self.operations
PipeIter(t) ==
  LET th == threads[t]
  IN  /\ Instr(th) = "exec" /\ th.pc = "start"
      /\ PipeBecomes(t, [th EXCEPT !.ref = queue.cur, !.i = 0, !.results = <<>>,
                                    !.pc = "iterate", !.alone = TRUE, !.err = FALSE])
      /\ UNCHANGED <<mem, queue>>

\* the iterator as it would be if it walked the list from its end
NextOp_backwards(list, i) == list[Len(list) - i]

\* the operation the list iterator yields at position i
NextOp(list, i) == list[i + 1]

\* one round of the loop: results.append(self.store.<op>(...))
PipeApply(t) ==
  LET th == threads[t]
      r == apply_op("memory", mem, NextOp(queue.objs[th.ref], th.i), now)
  IN  /\ th.pc = "iterate" /\ th.i < Len(queue.objs[th.ref])
      /\ mem' = r.store
      /\ PipeBecomes(t, [th EXCEPT !.i = th.i + 1, !.results = Append(th.results, r.ret)])
      /\ UNCHANGED queue

\* the iterator is exhausted: the loop ends
PipeStop(t) ==
  LET th == threads[t]
  IN  /\ th.pc = "iterate" /\ th.i >= Len(queue.objs[th.ref])
      /\ PipeBecomes(t, [th EXCEPT !.pc = "clear"])
      /\ UNCHANGED <<mem, queue>>

\* self.operations = []; return results
PipeClear(t) ==
  LET th == threads[t]
  IN  /\ th.pc = "clear"
      /\ queue' = [objs |-> Append(queue.objs, <<>>), cur |-> Len(queue.objs) + 1]
      /\ PipeBecomes(t, [th EXCEPT !.out = Append(th.out, th.results), !.ip = th.ip + 1,
                                    !.pc = "start"])
      /\ UNCHANGED mem

DoPipeLoad == \E t \in DOMAIN threads : PipeLoad(t)
DoPipeAppend == \E t \in DOMAIN threads : PipeAppend(t)
DoPipeIter == \E t \in DOMAIN threads : PipeIter(t)
DoPipeApply == \E t \in DOMAIN threads : PipeApply(t)
DoPipeStop == \E t \in DOMAIN threads : PipeStop(t)
DoPipeClear == \E t \in DOMAIN threads : PipeClear(t)

InitPipe == InitPipeOn("pipe", Threads, PipePrograms)

NextPipe ==
  DoPipeLoad \/ DoPipeAppend \/ DoPipeIter \/ DoPipeApply \/ DoPipeStop \/ DoPipeClear

SpecPipe == InitPipe /\ [][NextPipe]_vars

\* SpecPipeFault: one thread and a store whose operations may raise.  An
\* exception raised in the loop of execute leaves the method at once: the
\* statements after the loop are not run and the caller, which catches the
\* exception, goes on with its next instruction.
FaultPrograms ==
  {<<"enq", "exec", "exec">>, <<"enq", "enq", "exec", "exec">>,
   <<"enq", "exec", "enq", "exec">>, <<"enq", "exec", "exec", "exec">>,
   <<"enq", "exec", "enq", "exec", "exec">>, <<"enq", "enq", "exec", "exec", "exec">>,
   <<"exec", "enq", "exec", "enq", "exec">>}

\* results.append(self.store.<op>(...)) where the store call raises
PipeRaise(t) ==
  LET th == threads[t]
  IN  /\ th.pc = "iterate" /\ th.i < Len(queue.objs[th.ref])
      /\ PipeBecomes(t, [th EXCEPT !.err = TRUE, !.ip = th.ip + 1, !.pc = "start"])
      /\ UNCHANGED <<mem, queue>>

DoPipeRaise == \E t \in DOMAIN threads : PipeRaise(t)

InitPipeFault == InitPipeOn("pipefault", {1}, FaultPrograms)

NextPipeFault == NextPipe \/ DoPipeRaise

SpecPipeFault == InitPipeFault /\ [][NextPipeFault]_vars

\* SpecList: one client calls the list methods of a MemoryStore; the list
\* is built by rpush, of one value or of two, from nothing
ListKey == "l"
ListValues == {"x", "y"}
Counts == {-2, -1, 0, 1, 2}
Starts == 0..(MaxListLen + 1)
Ends == -1..(MaxListLen + 1)

ListCall(op, count, value, start, end, ret) ==
  [op |-> op, count |-> count, value |-> value, start |-> start, end |-> end, ret |-> ret]

InitList ==
  /\ now = 0
  /\ max_size = 1
  /\ kind = "list"
  /\ mem = MemoryStore_init
  /\ red = MemoryStore_init
  /\ last = ListCall("init", 0, NoneStr, 0, 0, 0)
  /\ hist = <<>>
  /\ threads = <<>>
  /\ queue = <<>>

ListStep(s, call) ==
  /\ mem' = s
  /\ last' = call
  /\ UNCHANGED <<now, max_size, kind, red, hist, threads, queue>>

ListRpush ==
  \E values \in {<<v>> : v \in ListValues} \cup {<<v, w>> : v, w \in ListValues} :
    LET r == rpush(mem, ListKey, values)
    IN  /\ r.ret <= MaxListLen
        /\ ListStep(r.store, ListCall("rpush", 0, values, 0, 0, r.ret))

ListLrem ==
  \E count \in Counts, value \in ListValues :
    LET r == lrem(mem, ListKey, count, value)
    IN  ListStep(r.store, ListCall("lrem", count, value, 0, 0, r.ret))

ListLrange ==
  \E start \in Starts, end \in Ends :
    ListStep(mem, ListCall("lrange", 0, NoneStr, start, end, lrange(mem, ListKey, start, end)))

NextList == ListRpush \/ ListLrem \/ ListLrange

SpecList == InitList /\ [][NextList]_vars

\* SpecCounter: one client calls incr and decr of a MemoryStore, at most
\* MaxHist times; hist records the calls
InitCounter ==
  /\ now = 0
  /\ max_size = 1
  /\ kind = "counter"
  /\ mem = MemoryStore_init
  /\ red = MemoryStore_init
  /\ last = StoreCall("init", NoneStr, None, NoTtl, 0, FALSE)
  /\ hist = <<>>
  /\ threads = <<>>
  /\ queue = <<>>

CounterStep(op, key, r) ==
  /\ Len(hist) < MaxHist
  /\ mem' = r.store
  /\ last' = StoreCall(op, key, None, NoTtl, r.ret, FALSE)
  /\ hist' = Append(hist, <<op, key>>)
  /\ UNCHANGED <<now, max_size, kind, red, threads, queue>>

CounterIncr == \E key \in {"n", "m"} : CounterStep("incr", key, incr(mem, key))
CounterDecr == \E key \in {"n", "m"} : CounterStep("decr", key, decr(mem, key))

NextCounter == CounterIncr \/ CounterDecr

SpecCounter == InitCounter /\ [][NextCounter]_vars

\* SpecBuild: one client holds two MemoryPipeline objects of one MemoryStore
\* and calls their builder methods; queue[p] is the operations list of
\* pipeline p, and the two lists together hold at most MaxQueue operations
Pipelines == {1, 2}

BuildCall(op, p, ret, key, value, ttl) ==
  [op |-> op, pipe |-> p, ret |-> ret, key |-> key, value |-> value, ttl |-> ttl]

InitBuild ==
  /\ now = 0
  /\ max_size = 1
  /\ kind = "build"
  /\ mem = set(MemoryStore_init, "a", pickle_dumps(1), NoTtl, 0).store
  /\ red = MemoryStore_init
  /\ last = BuildCall("init", 0, 0, NoneStr, None, NoTtl)
  /\ hist = <<>>
  /\ threads = <<>>
  /\ queue = <<MemoryPipeline_init.objs[1], MemoryPipeline_init.objs[1]>>

\* a builder method of pipeline p: the call leaves self.operations as ops
\* and returns self
BuildStep(op, p, ops, key, value, ttl) ==
  /\ Len(queue[1]) + Len(queue[2]) < MaxQueue
  /\ queue' = [queue EXCEPT ![p] = ops]
  /\ last' = BuildCall(op, p, p, key, value, ttl)
  /\ UNCHANGED <<now, max_size, kind, mem, red, hist, threads>>

BuildGet ==
  \E p \in Pipelines :
    BuildStep("get", p, pipe_get(queue[p], "a"), "a", None, NoTtl)
BuildSet ==
  \E p \in Pipelines, ttl \in {NoTtl, DefaultTtl} :
    BuildStep("set", p, pipe_set(queue[p], "a", pickle_dumps(1), ttl), "a", pickle_dumps(1), ttl)
BuildSetex ==
  \E p \in Pipelines, ttl \in {DefaultTtl, LongTtl} :
    BuildStep("setex", p, pipe_setex(queue[p], "a", ttl, pickle_dumps(1)), "a", pickle_dumps(1), ttl)
BuildDelete ==
  \E p \in Pipelines :
    BuildStep("delete", p, pipe_delete(queue[p], "a"), "a", None, NoTtl)
BuildLrem ==
  \E p \in Pipelines :
    BuildStep("lrem", p, pipe_lrem(queue[p], "l", 1, "a"), "l", "a", NoTtl)
BuildRpush ==
  \E p \in Pipelines :
    BuildStep("rpush", p, pipe_rpush(queue[p], "l", <<"a">>), "l", <<"a">>, NoTtl)
BuildIncr ==
  \E p \in Pipelines :
    BuildStep("incr", p, pipe_incr(queue[p], "n"), "n", None, NoTtl)
BuildDecr ==
  \E p \in Pipelines :
    BuildStep("decr", p, pipe_decr(queue[p], "n"), "n", None, NoTtl)

NextBuild ==
  \/ BuildGet \/ BuildSet \/ BuildSetex \/ BuildDelete
  \/ BuildLrem \/ BuildRpush \/ BuildIncr \/ BuildDecr

SpecBuild == InitBuild /\ [][NextBuild]_vars

\* ------------------------------------------------------------ _generate_key
\* argument values: an int and two strings, one of them the int's string form
ArgValues == {[tag |-> "int", v |-> 1], [tag |-> "str", v |-> "1"], [tag |-> "str", v |-> "x"]}
ArgNames == <<"p", "q">>

\* str(): decimal digits of an int, a string as it is
Digits == <<"1", "2", "3", "4", "5", "6", "7", "8", "9">>
str(arg) == IF arg.tag = "int" THEN Digits[arg.v] ELSE arg.v

\* sorted(kwargs.items()): the (name, value) pairs by ascending name; the
\* names of one call are distinct
NameRank(name) == CHOOSE i \in DOMAIN ArgNames : ArgNames[i] = name
RECURSIVE sorted(_)
sorted(items) ==
  IF items = <<>> THEN <<>>
  ELSE LET i == CHOOSE i \in DOMAIN items :
                  \A j \in DOMAIN items : NameRank(items[i][1]) <= NameRank(items[j][1])
       IN  <<items[i]>> \o sorted(RemoveAt(items, i))

\* ":".join(parts)
RECURSIVE join(_)
join(parts) ==
  IF parts = <<>> THEN ""
  ELSE IF Len(parts) = 1 THEN parts[1]
  ELSE parts[1] \o ":" \o join(Tail(parts))

\* hashlib.md5(...).hexdigest(): a fixed function of the string hashed
md5(key_str) == [md5 |-> key_str]

\* _generate_key as it would be if the named arguments kept the caller's order
generate_key_unsorted(args, kwargs) ==
  LET key_parts == [i \in DOMAIN args |-> str(args[i])]
                     \o [i \in DOMAIN kwargs |-> kwargs[i][1] \o ":" \o str(kwargs[i][2])]
  IN  md5(join(key_parts))

generate_key(args, kwargs) ==
  LET items == sorted(kwargs)
      key_parts == [i \in DOMAIN args |-> str(args[i])]
                     \o [i \in DOMAIN items |-> items[i][1] \o ":" \o str(items[i][2])]
  IN  md5(join(key_parts))

\* SpecKey: _generate_key is called again and again; last is the latest
\* call and hist holds the one before it
ArgLists == UNION {[1..n -> ArgValues] : n \in 0..MaxArgs}
KwargValues == {[tag |-> "int", v |-> 1], [tag |-> "str", v |-> "x"]}
KwargLists ==
  {<<>>}
    \cup {<< <<name, value>> >> : name \in {"p", "q"}, value \in KwargValues}
    \cup {<< <<"p", v1>>, <<"q", v2>> >> : v1 \in KwargValues, v2 \in KwargValues}
    \cup {<< <<"q", v1>>, <<"p", v2>> >> : v1 \in KwargValues, v2 \in KwargValues}

KeyCall(op, args, kwargs, ret) == [op |-> op, args |-> args, kwargs |-> kwargs, ret |-> ret]

InitKey ==
  /\ now = 0
  /\ max_size = 1
  /\ kind = "key"
  /\ mem = MemoryStore_init
  /\ red = MemoryStore_init
  /\ last = KeyCall("init", <<>>, <<>>, NoneStr)
  /\ hist = <<>>
  /\ threads = <<>>
  /\ queue = <<>>

GenerateKey ==
  \E args \in ArgLists, kwargs \in KwargLists :
    /\ last' = KeyCall("generate_key", args, kwargs, generate_key(args, kwargs))
    /\ hist' = IF last.op = "generate_key" THEN <<last>> ELSE <<>>
    /\ UNCHANGED <<now, max_size, kind, mem, red, threads, queue>>

NextKey == GenerateKey

SpecKey == InitKey /\ [][NextKey]_vars

\* SpecOvershoot: over the Redis-style store, two threads set two different
\* new keys at the same time; when both calls have returned, thread 1 goes
\* on with sets of keys that have no payload, one call after the other, at
\* most MaxHist of them; hist holds the keys of these later calls
InitOvershoot ==
  /\ now = 0
  /\ max_size \in 1..MaxCapacity
  /\ kind = "redis"
  /\ mem = MemoryStore_init
  /\ red \in {Cache_init("redis", MemoryStore_init, 0),
              Cache_set("redis", Cache_init("redis", MemoryStore_init, 0),
                        "C", ScriptValue, NoTtl, 0, max_size).store}
  /\ last = Call("init", NoneStr, 0, NoTtl, Idle(mem), Idle(red))
  /\ hist = <<>>
  /\ threads = [t \in Threads |->
                  Thread("set", KeyOrder[t], "exists", FALSE, 0, NoneStr, 0)]
  /\ queue = <<>>

\* thread 1 calls cache.set(key, ...) once both threads have returned
LaterSet ==
  \E key \in Range(KeyOrder) :
    /\ \A t \in Threads : threads[t].pc = "done"
    /\ Len(hist) < MaxHist
    /\ ~RedLive(red, key, now)
    /\ threads' = [threads EXCEPT ![1] = Thread("set", key, "exists", FALSE, 0, NoneStr, 0)]
    /\ hist' = Append(hist, key)
    /\ UNCHANGED <<now, max_size, kind, mem, red, last, queue>>

NextOvershoot ==
  DoThreadExists \/ DoThreadSize \/ DoThreadLindex \/ DoThreadExecute \/ LaterSet

SpecOvershoot == InitOvershoot /\ [][NextOvershoot]_vars

\* ------------------------------------------------------------ CleanMemoryStore
\* now = time.time()
\* expired_keys = [key for key, expire_time in self.expiry.items() if now > expire_time]
\* expired_keys as it would be if the sweep found no key expired
expired_keys_none(s, time) == {key \in DOMAIN s.expiry : FALSE}

expired_keys(s, time) == {key \in DOMAIN s.expiry : time > s.expiry[key]}

RECURSIVE delete_each(_, _)
\* for key in expired_keys: self.delete(key)
delete_each(s, keys) ==
  IF keys = {} THEN s
  ELSE LET key == CHOOSE k \in keys : TRUE
       IN  delete_each(delete(s, key).store, keys \ {key})

cleanup_expired(s, time) ==
  [store |-> delete_each(s, expired_keys(s, time)),
   ret |-> Cardinality(expired_keys(s, time))]

\* SpecClean: a Cache over a CleanMemoryStore; between two Cache calls the
\* store's cleanup_expired may run, and the clock is free to advance
InitClean == InitOn({"memory"}, 1..MaxCapacity)

CleanupExpired ==
  LET c == cleanup_expired(mem, now)
  IN  /\ mem' = c.store
      /\ last' = Call("cleanup_expired", NoneStr, 0, NoTtl,
                      Outcome(c.store, c.ret, <<>>, 0, 0, NoneStr), Idle(red))
      /\ UNCHANGED <<now, max_size, kind, red, hist, threads, queue>>

NextClean == DoSet \/ DoGet \/ DoDelete \/ DoTick \/ CleanupExpired

SpecClean == InitClean /\ [][NextClean]_vars

\* SpecShared: up to two Cache objects are constructed on one store, each
\* with a max_size of its own, and calls are made through either; hist
\* holds the max_size of each Cache constructed so far, and last.cache the
\* Cache the last call went through
InitShared ==
  /\ now = 0
  /\ max_size = MaxCapacity
  /\ kind \in Kinds
  /\ mem = MemoryStore_init
  /\ red = MemoryStore_init
  /\ last = Call("none", NoneStr, 0, NoTtl, Idle(mem), Idle(red)) @@ [cache |-> 0]
  /\ hist = <<>>
  /\ threads = <<>>
  /\ queue = <<>>

SharedStep(c, op, key, value, o) ==
  /\ StoreBecomes(o.store)
  /\ Bounded(mem', red')
  /\ last' = Call(op, key, value, NoTtl,
                  IF kind = "memory" THEN o ELSE Idle(mem),
                  IF kind = "redis" THEN o ELSE Idle(red)) @@ [cache |-> c]
  /\ UNCHANGED <<now, max_size, kind, threads, queue>>

\* Cache(store, max_size=capacity)
Construct ==
  \E capacity \in 1..MaxCapacity :
    /\ Len(hist) < 2
    /\ SharedStep(Len(hist) + 1, "init", NoneStr, 0,
                  Outcome(Cache_init(kind, TheStore, now), 0, <<>>, 0, 0, NoneStr))
    /\ hist' = Append(hist, capacity)

SharedSet ==
  \E c \in DOMAIN hist, key \in RaceKeys, value \in Values :
    /\ SharedStep(c, "set", key, value,
                  Cache_set(kind, TheStore, key, value, NoTtl, now, hist[c]))
    /\ UNCHANGED hist

SharedGet ==
  \E c \in DOMAIN hist, key \in RaceKeys :
    /\ SharedStep(c, "get", key, 0, Cache_get(kind, TheStore, key, now))
    /\ UNCHANGED hist

SharedDelete ==
  \E c \in DOMAIN hist, key \in RaceKeys :
    /\ SharedStep(c, "delete", key, 0, Cache_delete(kind, TheStore, key, now))
    /\ UNCHANGED hist

NextShared == Construct \/ SharedSet \/ SharedGet \/ SharedDelete \/ DoTick

SpecShared == InitShared /\ [][NextShared]_vars

\* SpecSeq: one client calls set, get, delete, incr, decr, rpush and exists
\* of a MemoryStore directly and executes pipelines of two queued
\* operations on it, the clock free to advance; last holds the name of the
\* last call
Queued(ops) ==
  {pipe_get(ops, key) : key \in StoreKeys}
    \cup {pipe_set(ops, key, pickle_dumps(ScriptValue), ttl) : key \in StoreKeys, ttl \in StoreTtls}
    \cup {pipe_setex(ops, key, DefaultTtl, pickle_dumps(ScriptValue)) : key \in StoreKeys}
    \cup {pipe_delete(ops, key) : key \in StoreKeys}
    \cup {pipe_incr(ops, key) : key \in CounterKeys}
    \cup {pipe_decr(ops, key) : key \in CounterKeys}
    \cup {pipe_rpush(ops, "a", <<"x">>)}

InitSeq == InitStore

SeqStep(op, s) ==
  /\ Len(Lookup(s.lists, "a", <<>>)) <= 1
  /\ Lookup(s.counters, "n", 0) \in (-MaxCounter)..MaxCounter
  /\ mem' = s
  /\ last' = StoreCall(op, NoneStr, None, NoTtl, None, FALSE)
  /\ UNCHANGED <<now, max_size, kind, red, hist, threads, queue>>

\* a direct call of the method that a queued operation names
SeqCall ==
  \E ops \in Queued(<<>>) :
    SeqStep(ops[1].name, apply_op("memory", mem, ops[1], now).store)

SeqExists == \E key \in StoreKeys : SeqStep("exists", exists(mem, key, now).store)

\* pipe.execute() of a pipeline holding two operations
StoreExecute ==
  \E ops \in UNION {Queued(first) : first \in Queued(<<>>)} :
    SeqStep("execute", execute("memory", mem, ops, now).store)

NextSeq == SeqCall \/ SeqExists \/ StoreExecute \/ DoTick

SpecSeq == InitSeq /\ [][NextSeq]_vars

\* SpecReaper: a CleanMemoryStore with its cleanup thread.  Callers set and
\* get keys and the clock advances; the thread sleeps, then runs
\* cleanup_expired one store call at a time: it takes the list of expired
\* keys and deletes them one by one, callers running in between.
\* threads is the cleanup thread: pc and its local expired_keys
Reaper(pc, keys) == [pc |-> pc, keys |-> keys]

InitReaper ==
  /\ now = 0
  /\ max_size = 1
  /\ kind = "clean"
  /\ mem = MemoryStore_init
  /\ red = MemoryStore_init
  /\ last = StoreCall("init", NoneStr, None, NoTtl, None, FALSE)
  /\ hist = <<>>
  /\ threads = Reaper("sleep", {})
  /\ queue = <<>>

CallerStep(op, key, ttl, s) ==
  /\ mem' = s
  /\ last' = StoreCall(op, key, None, ttl, None, FALSE)
  /\ UNCHANGED <<now, max_size, kind, red, hist, threads, queue>>

CallerSet ==
  \E key \in StoreKeys, ttl \in StoreTtls :
    CallerStep("set", key, ttl, set(mem, key, pickle_dumps(ScriptValue), ttl, now).store)

CallerGet == \E key \in StoreKeys : CallerStep("get", key, NoTtl, get(mem, key, now).store)

\* time.sleep(self.cleanup_interval) returns; cleanup_expired builds expired_keys
ReaperWake ==
  /\ threads.pc = "sleep"
  /\ threads' = LET keys == expired_keys(mem, now)
                IN  Reaper(IF keys = {} THEN "sleep" ELSE "delete", keys)
  /\ UNCHANGED <<now, max_size, kind, mem, red, last, hist, queue>>

\* for key in expired_keys: self.delete(key)
ReaperDelete ==
  \E key \in threads.keys :
    /\ threads.pc = "delete"
    /\ mem' = delete(mem, key).store
    /\ threads' = Reaper(IF threads.keys = {key} THEN "sleep" ELSE "delete",
                         threads.keys \ {key})
    /\ last' = StoreCall("reap", key, None, NoTtl, None, FALSE)
    /\ UNCHANGED <<now, max_size, kind, red, hist, queue>>

NextReaper == CallerSet \/ CallerGet \/ DoTick \/ ReaperWake \/ ReaperDelete

SpecReaper == InitReaper /\ [][NextReaper]_vars

\* the cleanup thread is scheduled fairly: its sleep ends and its deletes run
SpecReaperFair == SpecReaper /\ WF_vars(ReaperWake) /\ WF_vars(ReaperDelete)

\* ------------------------------------------------------------------ claims
NoDuplicates(seq) == \A i, j \in 1..Len(seq) : i # j => seq[i] # seq[j]
Last(seq) == seq[Len(seq)]
Without(seq, key) == SelectSeq(seq, LAMBDA x : x # key)
AllKeys == Range(KeyOrder)
SetsOnly(h) == \A i \in 1..Len(h) : h[i][1] = "set"
SetsAndDeletesOnly(h) == \A i \in 1..Len(h) : h[i][1] \in {"set", "delete"}
\* the keys a script of sets and deletes has set and not deleted since
SetNotDeleted(h) ==
  {k \in AllKeys : \E i \in 1..Len(h) :
     h[i] = <<"set", k>> /\ \A j \in (i + 1)..Len(h) : h[j] # <<"delete", k>>}
MemCached(key) == Cache_get("memory", mem, key, now).ret # 0
RedCached(key) == Cache_get("redis", red, key, now).ret # 0
MemStats == Cache_get_stats("memory", mem, now, max_size).ret
RedStats == Cache_get_stats("redis", red, now, max_size).ret

\* C1: over MemoryStore with max_size = N, after N+1 sets of distinct keys
\* on a fresh cache the first-inserted key is evicted (get returns None, it
\* is not in get_stats keys) and the cached keys are the last N inserted.
C1_FirstInsertedEvicted ==
  (kind = "memory" /\ SetsOnly(hist) /\ NoDuplicates(hist) /\ Len(hist) = max_size + 1) =>
    /\ ~MemCached(hist[1][2])
    /\ hist[1][2] \notin Range(MemStats.keys)
    /\ {k \in AllKeys : MemCached(k)} = {hist[i][2] : i \in 2..Len(hist)}

\* C2: the same sequence of calls returns the same results, call by call,
\* from a Cache over MemoryStore and from a Cache over the Redis-style store.
C2_SameResults == kind = "both" => last.mem.ret = last.red.ret

\* C3: over MemoryStore, after sets and deletes that keep the number of
\* live keys below max_size, get_stats size is the number of keys set and
\* not deleted and get_stats keys is the recency list.
C3_StatsCountLiveKeys ==
  (/\ kind = "memory"
   /\ SetsAndDeletesOnly(hist)
   /\ \A n \in 0..Len(hist) : Cardinality(SetNotDeleted(SubSeq(hist, 1, n))) < max_size) =>
    /\ MemStats.size = Cardinality(SetNotDeleted(hist))
    /\ MemStats.keys = RecencyList(mem)

\* C4: over MemoryStore, with the clock free to advance, the recency list
\* holds no key twice and holds a key exactly when its payload is live.
C4_ListIsLiveKeys ==
  kind = "memory" =>
    /\ NoDuplicates(RecencyList(mem))
    /\ \A k \in Keys : k \in Range(RecencyList(mem)) <=> MemLive(mem, k, now)

\* C5: over the Redis-style store, while no ttl has run out, the size
\* counter equals the length of the recency list after every call.
C5_SizeIsListLength ==
  (kind = "redis" /\ now = 0) => SizeBytes(red) = Len(RecencyList(red))

\* C6: over the Redis-style store, with the clock free to advance, the
\* recency list never holds more than max_size keys, never more than
\* max_size payloads are live, and only a set of a key without a live
\* payload evicts.
C6_CapacityKept ==
  kind = "redis" =>
    /\ Len(RecencyList(red)) <= max_size
    /\ Cardinality({k \in Keys : RedLive(red, k, now)}) <= max_size
C6_OnlyNewSetEvicts ==
  (kind = "redis" /\ now' = now /\ last'.red.evicted # NoneStr) =>
    (last'.op = "set" /\ ~RedLive(red, last'.key, now))
RefreshScript == <<<<"set", "A">>, <<"set", "B">>, <<"set", "C">>, <<"get", "A">>, <<"set", "D">>>>
C7_RefreshAtCapacityTwo ==
  (kind = "redis" /\ max_size = 2 /\ hist = RefreshScript) =>
    (last.red.evicted = "B" /\ RedCached("A"))

\* C7 amended: with capacity 3, get(A) after set(A), set(B), set(C) moves A
\* to the tail of the recency list, and the set(D) that follows evicts B
\* and not A: A, C and D are cached afterwards, B is not.
C7_RefreshAtCapacityThree ==
  (kind = "redis" /\ max_size = 3) =>
    /\ hist = SubSeq(RefreshScript, 1, 4) => RecencyList(red) = <<"B", "C", "A">>
    /\ hist = RefreshScript =>
         /\ last.red.evicted = "B"
         /\ {k \in AllKeys : RedCached(k)} = {"A", "C", "D"}
         /\ RecencyList(red) = <<"C", "A", "D">>
C7_Witness == kind = "redis" /\ max_size = 3 /\ hist = RefreshScript

\* C8: a Cache.set of a key whose payload is live evicts nothing and leaves
\* the size counter and get_stats size as they were; it changes only that
\* key's payload, its expiry and its place in the recency list, which
\* becomes the tail (the other keys keep their order, no entry is added).
OverwriteFrame(s, s2, res, key, value, ttl, size, size2, t) ==
  /\ res.evicted = NoneStr
  /\ \A i \in 1..Len(res.ops) : res.ops[i].name # "delete"
  /\ size2 = size
  /\ \A j \in Keys \ {key} :
       /\ Lookup(s2.data, data_key(j), None) = Lookup(s.data, data_key(j), None)
       /\ Lookup(s2.expiry, data_key(j), -1) = Lookup(s.expiry, data_key(j), -1)
  /\ Lookup(s2.data, data_key(key), None) = pickle_dumps(value)
  /\ Lookup(s2.expiry, data_key(key), -1) = t + (IF ttl = NoTtl THEN DefaultTtl ELSE ttl)
  /\ Without(RecencyList(s2), key) = Without(RecencyList(s), key)
  /\ Count(RecencyList(s2), key) = Count(RecencyList(s), key)
  /\ Last(RecencyList(s2)) = key
C8_OverwriteStep ==
  (now' = now /\ last'.op = "set") =>
    /\ (Active("memory") /\ MemLive(mem, last'.key, now)) =>
         /\ OverwriteFrame(mem, mem', last'.mem, last'.key, last'.value, last'.ttl,
                           MemSize(mem), MemSize(mem'), now)
         /\ Cache_get_stats("memory", mem', now, max_size).ret.size = MemStats.size
    /\ (Active("redis") /\ RedLive(red, last'.key, now)) =>
         /\ OverwriteFrame(red, red', last'.red, last'.key, last'.value, last'.ttl,
                           SizeBytes(red), SizeBytes(red'), now)
         /\ Cache_get_stats("redis", red', now, max_size).ret.size = RedStats.size
C8_OverwriteKeepsSize == [][C8_OverwriteStep]_vars
\* an overwrite (lrem, rpush, set queued) of a key of a full cache
C8_Witness ==
  /\ kind = "redis" /\ last.op = "set"
  /\ Len(last.red.ops) = 3 /\ last.red.ops[1].name = "lrem"
  /\ SizeBytes(red) >= max_size /\ Len(RecencyList(red)) >= 2
  /\ RecencyList(red)[1] # last.key

\* C9: over MemoryStore, after clear() get_stats reports size 0 and no
\* keys, and get returns None for every key.
C9_ClearEmptiesCache ==
  (kind = "memory" /\ last.op = "clear") =>
    /\ MemStats.size = 0
    /\ MemStats.keys = <<>>
    /\ \A k \in Keys : ~MemCached(k)

\* C10: Cache.delete of a key without a live payload returns False, creates
\* and executes no pipeline and leaves the recency list and the size
\* counter alone; Cache.delete of a key with a live payload returns True
\* and the same delete made again right after returns False.
DeleteFrame(res, live, list, list2, size, size2, again) ==
  IF ~live
  THEN /\ res.ret = FALSE /\ res.pipes = 0 /\ res.execs = 0 /\ res.ops = <<>>
       /\ list2 = list /\ size2 = size
  ELSE res.ret = TRUE /\ again = FALSE
C10_DeleteStep ==
  (now' = now /\ last'.op = "delete") =>
    /\ Active("memory") =>
         DeleteFrame(last'.mem, MemLive(mem, last'.key, now),
                     RecencyList(mem), RecencyList(mem'),
                     <<MemSize(mem), SizeBytes(mem)>>, <<MemSize(mem'), SizeBytes(mem')>>,
                     Cache_delete("memory", mem', last'.key, now).ret)
    /\ Active("redis") =>
         DeleteFrame(last'.red, RedLive(red, last'.key, now),
                     RecencyList(red), RecencyList(red'),
                     SizeBytes(red), SizeBytes(red'),
                     Cache_delete("redis", red', last'.key, now).ret)
\* a delete that follows a delete of the same key that returned True
C10_SecondDeleteStep ==
  (now' = now /\ last.op = "delete" /\ last'.op = "delete" /\ last'.key = last.key) =>
    /\ (Active("memory") /\ last.mem.ret = TRUE) => last'.mem.ret = FALSE
    /\ (Active("redis") /\ last.red.ret = TRUE) => last'.red.ret = FALSE
C10_DeleteIdempotent == [][C10_DeleteStep /\ C10_SecondDeleteStep]_vars
\* a delete of a key whose ttl had run out, on a cache holding other keys
C10_Witness ==
  /\ kind = "memory" /\ last.op = "delete" /\ last.mem.ret = FALSE
  /\ last.key \in Range(RecencyList(mem)) /\ MemSize(mem) > 0

\* C11: a Cache.get of a key right after a Cache.set of that key, the clock
\* not having moved, returns the value that was set, whatever the cache
\* held before: nothing, max_size other keys, the key itself, or the key
\* with a ttl that had run out.
C11_SetStep ==
  (now' = now /\ last'.op = "set") =>
    /\ Active("memory") => Cache_get("memory", mem', last'.key, now).ret = last'.value
    /\ Active("redis") => Cache_get("redis", red', last'.key, now).ret = last'.value
C11_SetThenGet == [][C11_SetStep]_vars
\* a set of a key whose ttl had run out and which, being the oldest entry
\* of the full recency list, is the key the set evicts
C11_Witness ==
  /\ kind = "redis" /\ last.op = "set" /\ now > 0
  /\ last.red.evicted = last.key
  /\ Cache_get("redis", red, last.key, now).ret = last.value

\* C12: a MemoryStore key set with ttl t when the clock reads c is returned
\* by get and reported True by exists while the clock is at most c + t; once
\* the clock is past c + t get returns None, exists returns False and the
\* check has removed the payload and the expiry record; at any one clock
\* value get and exists agree on whether a key is present.
Clocks == 0..(MaxTime + DefaultTtl + 1)
ExpiredGone(s, key) == ~Has(s.data, key) /\ ~Has(s.expiry, key)
C12_SetWithTtlStep ==
  (now' = now /\ last'.op = "set" /\ last'.ttl # NoTtl) =>
    \A t \in Clocks :
      LET g == get(mem', last'.key, t)
          e == exists(mem', last'.key, t)
      IN  IF t < now THEN TRUE
          ELSE IF t <= now + last'.ttl
          THEN g.ret = last'.value /\ e.ret = TRUE /\ g.store = mem' /\ e.store = mem'
          ELSE /\ g.ret = None /\ e.ret = FALSE
               /\ ExpiredGone(g.store, last'.key) /\ ExpiredGone(e.store, last'.key)
C12_GetExistsAgree ==
  kind = "store" =>
    \A key \in StoreKeys, t \in Clocks :
      (get(mem, key, t).ret # None) <=> exists(mem, key, t).ret
C12_TtlExpiry == [](C12_GetExistsAgree) /\ [][C12_SetWithTtlStep]_vars
\* a get whose expiry check removed a key that another call had set
C12_Witness ==
  /\ kind = "store" /\ last.op = "get" /\ last.expired /\ last.ret = None
  /\ ExpiredGone(mem, last.key) /\ now > DefaultTtl

\* C13: once two threads, each having made one Cache call (set, get or
\* delete) on the same MemoryStore with their store calls interleaved, have
\* both returned, the recency list holds no key twice and holds exactly
\* the keys that have a payload.
AllReturned == threads # <<>> /\ \A t \in Threads : threads[t].pc = "done"
C13_ListAfterConcurrentCalls ==
  (kind = "memory" /\ AllReturned) =>
    /\ NoDuplicates(RecencyList(mem))
    /\ \A k \in RaceKeys : k \in Range(RecencyList(mem)) <=> Has(mem.data, data_key(k))

\* C14: when the threads sharing a MemoryPipeline have all finished their
\* enqueues and execute() calls, every operation that was enqueued has been
\* applied to the store exactly once, the execute() calls have returned as
\* many results in total as operations were enqueued, and the queue is empty.
RECURSIVE SumLen(_)
SumLen(seqs) == IF seqs = <<>> THEN 0 ELSE Len(Head(seqs)) + SumLen(Tail(seqs))
RECURSIVE Total(_, _)
Total(f, S) ==
  IF S = {} THEN 0 ELSE LET x == CHOOSE y \in S : TRUE IN f[x] + Total(f, S \ {x})
PipeLog == Lookup(mem.lists, PipeLogKey, <<>>)
AllFinished == \A t \in DOMAIN threads : Instr(threads[t]) = "end"
Enqueued ==
  UNION {{queue.objs[j][i].values[1] : i \in 1..Len(queue.objs[j])} :
         j \in 1..Len(queue.objs)}
C14_EveryOperationOnce ==
  (kind = "pipe" /\ AllFinished) =>
    /\ \A id \in Enqueued : Count(PipeLog, id) = 1
    /\ Total([t \in DOMAIN threads |-> SumLen(threads[t].out)], DOMAIN threads)
         = Total([t \in DOMAIN threads |-> threads[t].n], DOMAIN threads)
    /\ operations = <<>>

\* C15: an execute() that finds N operations enqueued, by one thread or by
\* several, before any execute() and runs with no other thread stepping in
\* applies them to the store in the order they were enqueued and returns
\* exactly N results, the i-th being what the i-th operation returned (for
\* an rpush the length of the list after it); the queue is empty afterwards
\* and an empty queue gives an empty result list.
C15_ExecuteStep ==
  \A t \in DOMAIN threads :
    (/\ kind = "pipe" /\ queue.cur = 1
     /\ threads[t].pc = "clear" /\ threads'[t].pc = "start" /\ threads[t].alone) =>
      LET ops == operations
          N == Len(ops)
          res == threads[t].results
      IN  /\ Len(res) = N
          /\ Len(PipeLog) >= N
          /\ \A i \in 1..N :
               /\ PipeLog[Len(PipeLog) - N + i] = ops[i].values[1]
               /\ res[i] = Len(PipeLog) - N + i
          /\ Last(threads'[t].out) = res
          /\ operations' = <<>>
          /\ mem' = mem
C15_ExecuteInOrder == [][C15_ExecuteStep]_vars
\* a first execute() that has just returned after applying, on its own, two
\* or more operations that both threads had enqueued
C15_Witness ==
  /\ kind = "pipe" /\ queue.cur = 2 /\ operations = <<>>
  /\ \E t \in DOMAIN threads :
       /\ threads[t].alone /\ threads[t].pc = "start" /\ Len(threads[t].out) = 1
       /\ Len(threads[t].out[1]) >= 2
       /\ Len(threads[t].out[1]) = Len(queue.objs[1])
       /\ \E i, j \in 1..Len(queue.objs[1]) :
            /\ queue.objs[1][i].values[1] \in Range(OpIds[1])
            /\ queue.objs[1][j].values[1] \in Range(OpIds[2])

\* C16: when a store operation raises while execute() applies the batch,
\* the pipeline's queue is empty once the error has reached the caller, and
\* no later execute() on the pipeline applies an operation of the failed
\* batch again.
C16_RaiseStep ==
  \A t \in DOMAIN threads :
    (threads[t].pc = "iterate" /\ threads'[t].err) => operations' = <<>>
C16_NothingAppliedTwice ==
  kind = "pipefault" => \A id \in Enqueued : Count(PipeLog, id) <= 1
C16_QueueClearedOnError == [](C16_NothingAppliedTwice) /\ [][C16_RaiseStep]_vars

\* C17: when a store call or pipeline execute made by Cache.get, set,
\* delete or clear raises, the Cache call ends with that error and with
\* nothing returned (no None or False in its place), the failing call is
\* not made again, and the thread makes no store call after it.
C17_EndsWithTheError ==
  \A t \in DOMAIN threads :
    (kind \in Kinds /\ threads[t].faults > 0) =>
      /\ threads[t].pc = "raised"
      /\ threads[t].error = Failure
      /\ threads[t].faults = 1
C17_NoCallAfterStep ==
  \A t \in DOMAIN threads :
    (kind \in Kinds /\ threads[t].faults > 0) => threads'[t] = threads[t]
C17_ErrorsPropagate == [](C17_EndsWithTheError) /\ [][C17_NoCallAfterStep]_vars
\* a Cache.get that found its key and whose later store call raised, and
\* a second thread that has gone on to the end of its own call
C17_Witness ==
  /\ kind \in Kinds /\ threads # <<>>
  /\ \E t, u \in DOMAIN threads :
       /\ threads[t].op = "get" /\ threads[t].found /\ threads[t].pc = "raised"
       /\ threads[t].calls >= 2
       /\ u # t /\ threads[u].pc = "done" /\ threads[u].op = "clear"

\* C18: MemoryStore.lrem(key, count, value) removes the first
\* min(count, occurrences) occurrences of value for count > 0, the last
\* min(|count|, occurrences) for count < 0 and every occurrence for
\* count = 0; it returns the number removed, 0 for a missing list or an
\* absent value, and keeps the order of the elements that remain.
Min(a, b) == IF a < b THEN a ELSE b
Positions(l, value) == {i \in 1..Len(l) : l[i] = value}
FirstOf(P, k) == {i \in P : Cardinality({j \in P : j < i}) < k}
LastOf(P, k) == {i \in P : Cardinality({j \in P : j > i}) < k}
\* l without the elements at the positions R, the others in their order
Kept(l, R) ==
  LET F[i \in 0..Len(l)] ==
        IF i = 0 THEN <<>> ELSE IF i \in R THEN F[i - 1] ELSE Append(F[i - 1], l[i])
  IN  F[Len(l)]
C18_LremStep ==
  (kind = "list" /\ last'.op = "lrem") =>
    IF ~Has(mem.lists, ListKey) THEN last'.ret = 0 /\ mem' = mem
    ELSE LET l == mem.lists[ListKey]
             P == Positions(l, last'.value)
             c == last'.count
             k == IF c > 0 THEN Min(c, Cardinality(P))
                  ELSE IF c < 0 THEN Min(-c, Cardinality(P)) ELSE Cardinality(P)
             R == IF c >= 0 THEN FirstOf(P, k) ELSE LastOf(P, k)
         IN  /\ last'.ret = k
             /\ mem'.lists[ListKey] = Kept(l, R)
             /\ mem' = [mem EXCEPT !.lists = mem'.lists]
C18_LremSemantics == [][C18_LremStep]_vars
\* an lrem with a negative count that removed the last occurrence of a
\* value and left an earlier one in the list
C18_Witness ==
  /\ kind = "list" /\ last.op = "lrem" /\ last.count = -1 /\ last.ret = 1
  /\ Len(mem.lists[ListKey]) = 2
  /\ mem.lists[ListKey][1] = last.value /\ mem.lists[ListKey][2] # last.value

\* C19: MemoryStore.lrange(key, start, end) on a list built by rpush
\* returns, in order, the elements at the positions start..end, both
\* included and counted from 0, as far as the list goes; with end = -1 the
\* elements from start to the last one; for a missing list the empty
\* sequence; and it never changes the list.
C19_LrangeStep ==
  (kind = "list" /\ last'.op = "lrange") =>
    LET l == Lookup(mem.lists, ListKey, <<>>)
        hi == IF last'.end = -1 THEN Len(l) - 1 ELSE Min(last'.end, Len(l) - 1)
        n == IF hi >= last'.start THEN hi - last'.start + 1 ELSE 0
    IN  /\ Len(last'.ret) = n
        /\ \A j \in 1..n : last'.ret[j] = l[last'.start + j]
        /\ mem' = mem
\* the list is the concatenation of the values pushed
C19_RpushStep ==
  (kind = "list" /\ last'.op = "rpush") =>
    /\ mem'.lists[ListKey] = Lookup(mem.lists, ListKey, <<>>) \o last'.value
    /\ last'.ret = Len(mem'.lists[ListKey])
C19_LrangeSlice == [][C19_LrangeStep /\ C19_RpushStep]_vars
\* an lrange from the second element on whose end lies past the list
C19_Witness ==
  /\ kind = "list" /\ last.op = "lrange" /\ last.start = 1
  /\ last.end > Len(Lookup(mem.lists, ListKey, <<>>)) - 1
  /\ Len(last.ret) = 2 /\ last.ret[1] # last.ret[2]

\* C20: after MemoryStore.set(key, value, ttl) a get returns the value
\* just written; with a ttl the entry expires ttl after the call, whatever
\* expiry it had before; without a ttl the entry has no expiry record
\* afterwards, even if an earlier set had given it one, and no later clock
\* value makes get or exists report it absent.
C20_SetStep ==
  (kind = "store" /\ now' = now /\ last'.op = "set") =>
    LET key == last'.key
    IN  /\ last'.ret = TRUE
        /\ get(mem', key, now).ret = last'.value
        /\ IF last'.ttl # NoTtl
           THEN /\ Lookup(mem'.expiry, key, NoTtl) = now + last'.ttl
                /\ \A t \in Clocks :
                     t >= now => ((get(mem', key, t).ret = last'.value) <=> t <= now + last'.ttl)
           ELSE /\ ~Has(mem'.expiry, key)
                /\ \A t \in Clocks :
                     t >= now => get(mem', key, t).ret = last'.value /\ exists(mem', key, t).ret
        /\ \A other \in StoreKeys \ {key} :
             /\ Lookup(mem'.data, other, None) = Lookup(mem.data, other, None)
             /\ Lookup(mem'.expiry, other, NoTtl) = Lookup(mem.expiry, other, NoTtl)
C20_SetSemantics == [][C20_SetStep]_vars
\* a set without ttl of a key that an earlier set had given an expiry,
\* the clock now being past that expiry and the key still returned
C20_Witness ==
  /\ kind = "store" /\ last.op = "set" /\ last.ttl = NoTtl
  /\ last.before # NoTtl /\ now > last.before
  /\ ~Has(mem.expiry, last.key) /\ get(mem, last.key, now).ret = last.value

\* C21: MemoryStore.delete(key) of a key that has a payload removes the
\* payload and the expiry record and returns True; of a key without a
\* payload it returns False and changes nothing; either way the other
\* keys, the lists and the counters stay as they were.
C21_DeleteStep ==
  (kind = "store" /\ now' = now /\ last'.op = "delete") =>
    LET key == last'.key
    IN  /\ IF Has(mem.data, key)
           THEN last'.ret = TRUE /\ ~Has(mem'.data, key) /\ ~Has(mem'.expiry, key)
           ELSE last'.ret = FALSE /\ mem' = mem
        /\ \A other \in StoreKeys \ {key} :
             /\ Lookup(mem'.data, other, None) = Lookup(mem.data, other, None)
             /\ Lookup(mem'.expiry, other, NoTtl) = Lookup(mem.expiry, other, NoTtl)
        /\ mem'.lists = mem.lists
        /\ mem'.counters = mem.counters
C21_DeleteFrame == [][C21_DeleteStep]_vars
\* a delete that removed a payload with an expiry, in a store that holds a
\* list under the same name, a counter, and another key with an expiry
C21_Witness ==
  /\ kind = "store" /\ last.op = "delete" /\ last.ret = TRUE /\ last.before # NoTtl
  /\ Has(mem.lists, last.key) /\ mem.counters # EmptyMap
  /\ \E other \in StoreKeys \ {last.key} : Has(mem.expiry, other)

\* C22: MemoryStore.exists(key) returns True exactly when the key has a
\* payload and its expiry, if it has one, has not passed; on a key whose
\* expiry has passed it removes that key's payload and expiry record and
\* changes nothing else, and on any other key it changes nothing.
C22_ExistsStep ==
  (kind = "store" /\ now' = now /\ last'.op = "exists") =>
    LET key == last'.key
        passed == Has(mem.expiry, key) /\ now > mem.expiry[key]
    IN  /\ last'.ret = (Has(mem.data, key) /\ ~passed)
        /\ IF passed
           THEN mem' = [mem EXCEPT !.data = Del(mem.data, key), !.expiry = Del(mem.expiry, key)]
           ELSE mem' = mem
        /\ passed => ~Has(mem'.data, key) /\ ~Has(mem'.expiry, key)
C22_ExistsSemantics == [][C22_ExistsStep]_vars
\* an exists that found the expiry passed and removed the key, another
\* key keeping its payload and its own expiry record
C22_Witness ==
  /\ kind = "store" /\ last.op = "exists" /\ last.expired /\ last.ret = FALSE
  /\ ~Has(mem.data, last.key) /\ ~Has(mem.expiry, last.key)
  /\ \E other \in StoreKeys \ {last.key} : Has(mem.data, other) /\ Has(mem.expiry, other)

\* C23: MemoryStore.incr and decr take a key never used for 0, change its
\* counter by exactly +1 and -1 and return the new value, which may be
\* negative; after i incr and d decr calls on a key, in any order, the
\* last of them returned i - d.
Calls(h, op, key) == Cardinality({i \in 1..Len(h) : h[i] = <<op, key>>})
C23_CounterStep ==
  (kind = "counter" /\ last'.op \in {"incr", "decr"}) =>
    LET key == last'.key
        old == IF Has(mem.counters, key) THEN mem.counters[key] ELSE 0
    IN  /\ last'.ret = old + (IF last'.op = "incr" THEN 1 ELSE -1)
        /\ mem'.counters[key] = last'.ret
        /\ \A other \in DOMAIN mem.counters \ {key} : mem'.counters[other] = mem.counters[other]
        /\ DOMAIN mem'.counters = DOMAIN mem.counters \cup {key}
C23_ReturnsDifference ==
  (kind = "counter" /\ hist # <<>>) =>
    /\ last.ret = Calls(hist, "incr", last.key) - Calls(hist, "decr", last.key)
    /\ \A key \in DOMAIN mem.counters :
         mem.counters[key] = Calls(hist, "incr", key) - Calls(hist, "decr", key)
C23_Counters == [](C23_ReturnsDifference) /\ [][C23_CounterStep]_vars
\* a decr that took a counter below zero after calls on both keys
C23_Witness ==
  /\ kind = "counter" /\ last.op = "decr" /\ last.ret < 0
  /\ Calls(hist, "incr", last.key) > 0
  /\ \E other \in DOMAIN mem.counters : other # last.key /\ mem.counters[other] > 0

\* C24: every MemoryPipeline builder call (get, set, setex, delete, lrem,
\* rpush, incr, decr) appends exactly one operation at the end of the
\* pipeline's queue, leaves the operations queued before, the other
\* pipeline and the store as they were, and returns the pipeline it was
\* called on; setex(key, ttl, value) queues the operation that
\* set(key, value, ttl) queues.
Builders == {"get", "set", "setex", "delete", "lrem", "rpush", "incr", "decr"}
C24_Queued(call) ==
  IF call.op \in {"set", "setex"} THEN <<"set", call.key, call.value, call.ttl>>
  ELSE IF call.op = "lrem" THEN <<"lrem", call.key, 1, call.value>>
  ELSE IF call.op = "rpush" THEN <<"rpush", call.key, call.value>>
  ELSE <<call.op, call.key>>
C24_Tuple(op) ==
  IF op.name = "set" THEN <<"set", op.key, op.value, op.ttl>>
  ELSE IF op.name = "lrem" THEN <<"lrem", op.key, op.count, op.value>>
  ELSE IF op.name = "rpush" THEN <<"rpush", op.key, op.values>>
  ELSE <<op.name, op.key>>
C24_BuildStep ==
  (kind = "build" /\ (queue' # queue \/ last' # last)) =>
    LET p == last'.pipe
    IN  /\ last'.op \in Builders
        /\ Len(queue'[p]) = Len(queue[p]) + 1
        /\ SubSeq(queue'[p], 1, Len(queue[p])) = queue[p]
        /\ C24_Tuple(Last(queue'[p])) = C24_Queued(last')
        /\ \A other \in Pipelines \ {p} : queue'[other] = queue[other]
        /\ mem' = mem
        /\ last'.ret = p
C24_BuildersAppend == [][C24_BuildStep]_vars
\* a setex with the long ttl queued behind an earlier operation, the other
\* pipeline holding an operation of its own
C24_Witness ==
  /\ kind = "build" /\ last.op = "setex" /\ last.ttl = LongTtl
  /\ Len(queue[last.pipe]) = 2
  /\ Last(queue[last.pipe]).ttl = LongTtl
  /\ \E other \in Pipelines \ {last.pipe} : Len(queue[other]) = 1

\* C25: Cache._generate_key is deterministic and depends only on the string
\* forms of the positional arguments in their order and of the named
\* arguments taken by ascending name: two calls whose positional arguments
\* have the same string forms and whose named arguments are the same
\* name-to-string-form pairs, passed in any order, return the same
\* fingerprint.
Forms(args) == [i \in DOMAIN args |-> str(args[i])]
NamedForms(kwargs) == {<<kwargs[i][1], str(kwargs[i][2])>> : i \in DOMAIN kwargs}
C25_SameFingerprint ==
  (kind = "key" /\ hist # <<>>) =>
    ((Forms(hist[1].args) = Forms(last.args) /\ NamedForms(hist[1].kwargs) = NamedForms(last.kwargs))
       => hist[1].ret = last.ret)
\* two calls with the named arguments in opposite orders and a positional
\* argument of another type with the same string form
C25_Witness ==
  /\ kind = "key" /\ hist # <<>>
  /\ Len(last.kwargs) = 2 /\ hist[1].kwargs = <<last.kwargs[2], last.kwargs[1]>>
  /\ Len(last.args) = 2 /\ Forms(hist[1].args) = Forms(last.args) /\ hist[1].args # last.args
  /\ last.args[1] # last.args[2]
  /\ hist[1].ret = last.ret

\* C26: over the Redis-style store, calls one after the other and no ttl
\* running out, a Cache.set evicts only when max_size payloads are live
\* before it: while fewer are live, whatever sets, evictions and deletes
\* came before, a set evicts nothing.
RedLiveKeys == {k \in AllKeys : RedLive(red, k, now)}
C26_EvictStep ==
  (kind = "redis" /\ hist' # hist /\ last'.op = "set" /\ last'.red.evicted # NoneStr) =>
    Cardinality(RedLiveKeys) >= max_size
C26_EvictsOnlyWhenFull == [][C26_EvictStep]_vars

\* C27: over the Redis-style store, calls one after the other and no ttl
\* running out, a Cache.set that evicts evicts exactly one key: the head of
\* the recency list, which is the live key whose latest successful set or
\* get lies furthest back; its list entry and its payload are both removed
\* and every other live key stays.
RECURSIVE RedAfter(_)
\* the store after the calls of script h on a fresh Cache
RedAfter(h) ==
  IF h = <<>> THEN Cache_init("redis", MemoryStore_init, 0)
  ELSE LET s == RedAfter(SubSeq(h, 1, Len(h) - 1))
           call == h[Len(h)]
       IN  IF call[1] = "set"
           THEN Cache_set("redis", s, call[2], ScriptValue, NoTtl, 0, max_size).store
           ELSE IF call[1] = "get" THEN Cache_get("redis", s, call[2], 0).store
           ELSE Cache_delete("redis", s, call[2], 0).store
\* call i of h was a set, or a get that found its key
Successful(h, i) ==
  \/ h[i][1] = "set"
  \/ h[i][1] = "get" /\ Cache_get("redis", RedAfter(SubSeq(h, 1, i - 1)), h[i][2], 0).ret # 0
Uses(h, key) == {i \in 1..Len(h) : h[i][2] = key /\ Successful(h, i)}
LastUse(h, key) == CHOOSE i \in Uses(h, key) : \A j \in Uses(h, key) : j <= i
C27_EvictStep ==
  (kind = "redis" /\ hist' # hist /\ last'.red.evicted # NoneStr) =>
    LET oldest == last'.red.evicted
        list == RecencyList(red)
    IN  /\ last'.op = "set"
        /\ list # <<>> /\ oldest = list[1]
        /\ oldest \in RedLiveKeys
        /\ \A k \in RedLiveKeys : Uses(hist, k) # {}
        /\ \A k \in RedLiveKeys \ {oldest} : LastUse(hist, oldest) < LastUse(hist, k)
        /\ oldest \notin Range(RecencyList(red'))
        /\ ~Has(red'.data, data_key(oldest))
        /\ RecencyList(red') = Append(Tail(list), last'.key)
        /\ {k \in AllKeys : RedLive(red', k, now')} = (RedLiveKeys \ {oldest}) \cup {last'.key}
C27_EvictsLeastRecentlyUsed == [][C27_EvictStep]_vars
\* an eviction after a get had moved the first key set behind a later one
C27_Witness ==
  /\ kind = "redis" /\ Len(hist) >= 4 /\ last.op = "set"
  /\ last.red.evicted \notin {NoneStr, hist[1][2]}
  /\ \E i \in 1..Len(hist) : hist[i] = <<"get", hist[1][2]>> /\ Successful(hist, i)
  /\ RedLive(red, hist[1][2], now)
  /\ ~RedLive(red, last.red.evicted, now)

\* C28: Cache.get of a key with a live payload returns the stored value and
\* executes exactly one pipeline, lrem(list, 1, key) then rpush(list, key);
\* afterwards the key is the last element of the recency list, and the
\* order of the other keys, the length of the list, the size counter and
\* every payload and expiry time are as before.
Others(list, key) == SelectSeq(list, LAMBDA k : k # key)
C28_Hit(s, t, r, key) ==
  /\ r.ret = pickle_loads(s.data[data_key(key)])
  /\ r.pipes = 1 /\ r.execs = 1
  /\ Len(r.ops) = 2
  /\ r.ops[1].name = "lrem" /\ r.ops[1].key = cache_list_key
  /\ r.ops[1].count = 1 /\ r.ops[1].value = key
  /\ r.ops[2].name = "rpush" /\ r.ops[2].key = cache_list_key /\ r.ops[2].values = <<key>>
  /\ RecencyList(t) # <<>> /\ Last(RecencyList(t)) = key
  /\ Others(RecencyList(t), key) = Others(RecencyList(s), key)
  /\ Len(RecencyList(t)) = Len(RecencyList(s))
  /\ t.data = s.data /\ t.expiry = s.expiry /\ t.counters = s.counters
C28_GetStep ==
  (kind \in {"memory", "redis"} /\ now' = now /\ last'.op = "get") =>
    /\ (kind = "memory" /\ MemLive(mem, last'.key, now)) => C28_Hit(mem, mem', last'.mem, last'.key)
    /\ (kind = "redis" /\ RedLive(red, last'.key, now)) => C28_Hit(red, red', last'.red, last'.key)
C28_GetRefreshesOnly == [][C28_GetStep]_vars
\* a hit, with the clock past 0, that moved the key behind two others
C28_Witness ==
  /\ kind = "memory" /\ last.op = "get" /\ last.mem.ret # 0 /\ now > 0
  /\ Len(RecencyList(mem)) = 3
  /\ Cardinality(Range(RecencyList(mem))) = 3
  /\ Last(RecencyList(mem)) = last.key
  /\ Has(mem.expiry, data_key(last.key))

\* C29: Cache.get of a key without a payload (never set, deleted, evicted
\* or expired) returns None, creates no pipeline and leaves the recency
\* list and the size counter as they were.
C29_Miss(s, t, r) ==
  /\ r.ret = 0
  /\ r.pipes = 0 /\ r.execs = 0 /\ r.ops = <<>>
  /\ RecencyList(t) = RecencyList(s)
  /\ SizeBytes(t) = SizeBytes(s)
  /\ MemSize(t) = MemSize(s)
C29_GetStep ==
  (kind \in {"memory", "redis"} /\ now' = now /\ last'.op = "get") =>
    /\ (kind = "memory" /\ ~MemLive(mem, last'.key, now)) => C29_Miss(mem, mem', last'.mem)
    /\ (kind = "redis" /\ ~RedLive(red, last'.key, now)) => C29_Miss(red, red', last'.red)
C29_MissChangesNothing == [][C29_GetStep]_vars
\* a miss, with the clock past 0, on a key the recency list still names
C29_Witness ==
  /\ kind = "memory" /\ last.op = "get" /\ last.mem.ret = 0 /\ last.mem.pipes = 0
  /\ last.key \in Range(RecencyList(mem))
  /\ ~Has(mem.data, data_key(last.key))
  /\ now > 0

\* C30: Cache.set of a key without a live payload, when the size counter it
\* reads is below max_size, queues in one pipeline exactly
\* incr(size counter), rpush(list, key) and setex(payload key, ttl, bytes)
\* in that order, ttl being the ttl argument or the default ttl when the
\* argument is None, executes the pipeline once and evicts nothing.
C30_New(s, t, r, call, live(_)) ==
  SizeBytes(s) < max_size =>
    /\ r.pipes = 1 /\ r.execs = 1
    /\ Len(r.ops) = 3
    /\ r.ops[1].name = "incr" /\ r.ops[1].key = cache_size_key
    /\ r.ops[2].name = "rpush" /\ r.ops[2].key = cache_list_key
    /\ r.ops[2].values = <<call.key>>
    /\ r.ops[3].name = "set" /\ r.ops[3].key = data_key(call.key)
    /\ r.ops[3].value = pickle_dumps(call.value)
    /\ r.ops[3].ttl = (IF call.ttl = NoTtl THEN DefaultTtl ELSE call.ttl)
    /\ r.evicted = NoneStr
    /\ \A k \in Keys : live(k) => Has(t.data, data_key(k))
    /\ RecencyList(t) = Append(RecencyList(s), call.key)
C30_SetStep ==
  (kind \in {"memory", "redis"} /\ now' = now /\ last'.op = "set") =>
    /\ (kind = "memory" /\ ~MemLive(mem, last'.key, now)) =>
         C30_New(mem, mem', last'.mem, last', LAMBDA k : MemLive(mem, k, now))
    /\ (kind = "redis" /\ ~RedLive(red, last'.key, now)) =>
         C30_New(red, red', last'.red, last', LAMBDA k : RedLive(red, k, now))
C30_NewKeyBelowCapacity == [][C30_SetStep]_vars
\* a set of a second new key with the long ttl into a cache for two
C30_Witness ==
  /\ kind = "redis" /\ max_size = 2 /\ last.op = "set" /\ last.ttl = LongTtl
  /\ Len(last.red.ops) = 3 /\ last.red.ops[1].name = "incr"
  /\ SizeBytes(red) = 2 /\ Len(RecencyList(red)) = 2
  /\ Has(red.expiry, data_key(last.key)) /\ red.expiry[data_key(last.key)] = now + LongTtl

\* C31: over the Redis-style store, a Cache.set of a new key that reads a
\* size of max_size or more while the recency list is empty evicts
\* nothing and queues a reset of the size to 0 before the increment;
\* after the call the size is 1 and the recency list is exactly the key.
C31_SetStep ==
  (/\ kind = "redis" /\ now' = now /\ last'.op = "set"
   /\ ~RedLive(red, last'.key, now)
   /\ SizeBytes(red) >= max_size
   /\ RecencyList(red) = <<>>) =>
    LET r == last'.red
    IN  /\ r.evicted = NoneStr
        /\ Len(r.ops) = 4
        /\ r.ops[1].name = "set" /\ r.ops[1].key = cache_size_key
        /\ r.ops[1].value = IntBytes(0)
        /\ r.ops[2].name = "incr" /\ r.ops[2].key = cache_size_key
        /\ \A i \in 1..Len(r.ops) : r.ops[i].name \notin {"lrem", "delete"}
        /\ \A k \in Keys \ {last'.key} : Has(red.data, data_key(k)) => Has(red'.data, data_key(k))
        /\ SizeBytes(red') = 1
        /\ RecencyList(red') = <<last'.key>>
C31_SelfHeal == [][C31_SetStep]_vars
\* the set after a set, an evicting set and a delete in a cache for one
\* key: the size it read was 1 and the list was empty
C31_Witness ==
  /\ kind = "redis" /\ max_size = 1 /\ last.op = "set"
  /\ Len(last.red.ops) = 4 /\ last.red.ops[1].name = "set"
  /\ SizeBytes(red) = 1 /\ RecencyList(red) = <<last.key>>

\* C32: Cache.delete of a key with a live payload executes exactly one
\* pipeline and returns True; afterwards the key has no payload, one
\* occurrence of the key is gone from the recency list with the other
\* entries in their order, the size counter (the cell that the store's
\* incr and decr act on) is exactly one lower, and every other payload is
\* as before.
C32_Deleted(s, t, r, key, counter(_)) ==
  /\ r.ret = TRUE
  /\ r.pipes = 1 /\ r.execs = 1
  /\ Len(r.ops) = 3
  /\ r.ops[1].name = "delete" /\ r.ops[1].key = data_key(key)
  /\ r.ops[2].name = "lrem" /\ r.ops[2].key = cache_list_key
  /\ r.ops[2].count = 1 /\ r.ops[2].value = key
  /\ r.ops[3].name = "decr" /\ r.ops[3].key = cache_size_key
  /\ ~Has(t.data, data_key(key))
  /\ \E i \in 1..Len(RecencyList(s)) :
       RecencyList(s)[i] = key /\ RecencyList(t) = RemoveAt(RecencyList(s), i)
  /\ counter(t) = counter(s) - 1
  /\ \A k \in DOMAIN s.data \ {data_key(key), cache_size_key} :
       /\ Has(t.data, k) /\ t.data[k] = s.data[k]
       /\ Has(t.expiry, k) = Has(s.expiry, k)
       /\ Has(s.expiry, k) => t.expiry[k] = s.expiry[k]
C32_DeleteStep ==
  (kind \in {"memory", "redis"} /\ now' = now /\ last'.op = "delete") =>
    /\ (kind = "memory" /\ MemLive(mem, last'.key, now)) =>
         C32_Deleted(mem, mem', last'.mem, last'.key, MemSize)
    /\ (kind = "redis" /\ RedLive(red, last'.key, now)) =>
         C32_Deleted(red, red', last'.red, last'.key, SizeBytes)
C32_DeleteRemovesOne == [][C32_DeleteStep]_vars
\* a delete of the first of two cached keys
C32_Witness ==
  /\ kind = "redis" /\ last.op = "delete" /\ last.red.ret = TRUE
  /\ Len(RecencyList(red)) = 1 /\ SizeBytes(red) = 1
  /\ \E k \in Keys \ {last.key} : RedLive(red, k, now) /\ RecencyList(red) = <<k>>

\* C33: over the Redis-style store, two concurrent Cache.set calls of two
\* different new keys can both read a size below max_size and both
\* insert, so that more than max_size entries are cached; later Cache.set
\* calls of new keys bring the number of cached entries back to max_size
\* or less.
Cached == {k \in Range(KeyOrder) : RedLive(red, k, now)}
AllDone == \A t \in DOMAIN threads : threads[t].pc = "done"
C33_LaterSetsCorrect ==
  (kind = "redis" /\ threads # <<>> /\ AllDone /\ Len(hist) = MaxHist) =>
    Cardinality(Cached) <= max_size

\* C34: CleanMemoryStore.cleanup_expired, run on the store of a Cache,
\* removes for every key whose expiry time has passed the payload, the
\* expiry record and the key's entries in the recency list, so that no
\* list entry is left for an expired key, and leaves every entry that has
\* not expired as it was.
C34_CleanupStep ==
  (kind = "memory" /\ last'.op = "cleanup_expired" /\ now' = now /\ last' # last) =>
    /\ \A k \in Keys :
         IF Has(mem.expiry, data_key(k)) /\ now > mem.expiry[data_key(k)]
         THEN /\ ~Has(mem'.data, data_key(k))
              /\ ~Has(mem'.expiry, data_key(k))
              /\ k \notin Range(RecencyList(mem'))
         ELSE /\ Has(mem'.data, data_key(k)) = Has(mem.data, data_key(k))
              /\ Has(mem.data, data_key(k)) => mem'.data[data_key(k)] = mem.data[data_key(k)]
              /\ Has(mem'.expiry, data_key(k)) = Has(mem.expiry, data_key(k))
              /\ Has(mem.expiry, data_key(k)) => mem'.expiry[data_key(k)] = mem.expiry[data_key(k)]
              /\ (k \in Range(RecencyList(mem'))) = (k \in Range(RecencyList(mem)))
C34_CleanupRemovesListEntries == [][C34_CleanupStep]_vars

\* C35: constructing a Cache writes the size 0 only when the store has no
\* size key; constructing a second Cache on a store that holds entries
\* leaves the size, the recency list and the payloads as they are, and
\* the two Caches see the same entries: a value set through one is what a
\* get through the other returns.
C35_Result(call) == IF kind = "memory" THEN call.mem ELSE call.red
C35_ConstructStep ==
  (last'.op = "init" /\ hist' # hist) =>
    IF Has(TheStore.data, cache_size_key)
    THEN mem' = mem /\ red' = red
    ELSE /\ Len(hist) = 0
         /\ StoreBecomes([TheStore EXCEPT
                            !.data = Put(TheStore.data, cache_size_key, IntBytes(0))])
C35_OtherCacheStep ==
  (/\ last.op = "set" /\ last'.op = "get" /\ last'.key = last.key
   /\ last'.cache # last.cache
   /\ Has(TheStore.data, data_key(last.key))
   /\ now' = now
   /\ Has(TheStore.expiry, data_key(last.key)) => now < TheStore.expiry[data_key(last.key)]) =>
    C35_Result(last').ret = last.value
C35_SharedStore == [][C35_ConstructStep]_vars /\ [][C35_OtherCacheStep]_vars
\* a get through the second Cache, constructed on a store holding two
\* entries, of a key set through the first
C35_Witness ==
  /\ Len(hist) = 2 /\ last.op = "get" /\ last.cache = 2
  /\ C35_Result(last).ret # 0
  /\ Len(RecencyList(TheStore)) = 2
  /\ hist[1] # hist[2]

\* C36: over MemoryStore, calls one after the other and the clock free to
\* advance, after every Cache.set, get, delete and clear each key that has
\* a payload entry is in the recency list at least once.
C36_PayloadsAreListed ==
  kind = "memory" =>
    \A k \in Keys : Has(mem.data, data_key(k)) => k \in Range(RecencyList(mem))
\* a payload next to a list entry twice over and an entry without payload
C36_Witness ==
  /\ kind = "memory" /\ now > 0
  /\ \E k \in Keys :
       /\ Has(mem.data, data_key(k))
       /\ Cardinality(Positions(RecencyList(mem), k)) = 2
  /\ \E k \in Keys : ~Has(mem.data, data_key(k)) /\ k \in Range(RecencyList(mem))

\* C37: the size counter is never negative, in any state reached by two
\* threads making Cache.set, get and delete calls on one store, interleaved
\* at each store call.
C37_SizeNeverNegative ==
  (kind \in {"memory", "redis"} /\ threads # <<>>) =>
    /\ SizeBytes(TheStore) >= 0
    /\ MemSize(TheStore) >= 0

\* C38: MemoryStore.delete(key) returns True exactly when exists(key),
\* called just before at the same clock value, would have returned True;
\* so delete returns False for a key whose ttl has run out and whose
\* payload is still stored.
C38_DeleteStep ==
  (kind = "store" /\ now' = now /\ last'.op = "delete") =>
    last'.ret = (Has(mem.data, last'.key)
                   /\ ~(Has(mem.expiry, last'.key) /\ now > mem.expiry[last'.key]))
C38_DeleteAgreesWithExists == [][C38_DeleteStep]_vars

\* C40: in every state reached by MemoryStore calls made one after the
\* other (set, get, exists, delete, and the execute of a pipeline of any
\* queued operations), each key with an expiry record has a payload: the
\* keys of the expiry map are keys of the data map.
C40_ExpiryWithinData == kind = "store" => DOMAIN mem.expiry \subseteq DOMAIN mem.data
\* after a pipeline, with the clock past 0: one key expired and unreaped,
\* the other with neither payload nor expiry record
C40_Witness ==
  /\ kind = "store" /\ last.op = "execute"
  /\ \E k \in StoreKeys : Has(mem.expiry, k) /\ now > mem.expiry[k] /\ Has(mem.data, k)
  /\ \E k \in StoreKeys : ~Has(mem.expiry, k) /\ ~Has(mem.data, k)

\* C39: in a CleanMemoryStore whose cleanup thread is scheduled fairly,
\* every entry whose ttl has run out is in the end removed from the data
\* and expiry maps, also when no caller reads or checks the key again: an
\* expired entry does not stay, and it goes only by the removal of both
\* records or by a caller's new set of the key.
C39_Expired(k) == Has(mem.expiry, k) /\ now > mem.expiry[k]
C39_GoesStep ==
  kind = "clean" =>
    \A k \in StoreKeys :
      (C39_Expired(k) /\ ~(Has(mem'.expiry, k) /\ now' > mem'.expiry[k])) =>
        \/ ~Has(mem'.data, k) /\ ~Has(mem'.expiry, k)
        \/ last'.op = "set" /\ last'.key = k
C39_ExpiredEntriesGo ==
  /\ \A k \in StoreKeys : (kind = "clean" /\ C39_Expired(k)) ~> ~C39_Expired(k)
  /\ [][C39_GoesStep]_vars
\* the cleanup thread has removed an expired key while the other key, also
\* expired, still waits for its delete
C39_Witness ==
  /\ kind = "clean" /\ last.op = "reap"
  /\ ~Has(mem.data, last.key) /\ ~Has(mem.expiry, last.key)
  /\ threads.pc = "delete"
  /\ \E k \in threads.keys : C39_Expired(k)

====
